---- MODULE Spec2Model ----
(***************************************************************************)
(* Model of the layered extraction pipeline of the auto scraper:           *)
(* main.main (src/main.py) with the analysis, capture, decryption and      *)
(* fallback modules it calls, and the menu's _scrape_single_url            *)
(* (src/menu.py).  Text is modelled as sequences of letters so that the    *)
(* case-insensitive substring tests of the code are computed, not assumed. *)
(***************************************************************************)
EXTENDS FiniteSets, Integers, Sequences, TLC

(* ---------------------------------------------------------------- bounds *)
\* longest list of captured network responses in one capture
MaxResp == 2
\* largest number of card-like elements on a modelled page
MaxCards == 3

\* last second of the modelled wall clock
MaxClock == 2
\* largest number of runs that write a result file
MaxRuns == 3
MaxLive == 2            \* URLs of a probed site that answer 200 at all
MaxEndpoints == 3       \* blocked endpoints replayed by one native fetch
MaxRecorded == 3        \* responses and frames recorded during one navigation
MaxEpisodes == 2        \* episodes of one title
MaxBrowserRounds == 2   \* values of max_retries tried besides the default
MaxCalls == 2           \* calls of load_json_cached next to one refresh job

\* largest number of card-like elements on a page handed to smart_dom_extract alone
MaxPageCards == 102

\* largest number of POST /api/refresh/stocks requests
MaxRequests == 2
\* largest number of steps of the API server's clock
MaxTicks == 2

\* number of titles a pooled listing scrape works on
MaxItems == 3
\* number of worker threads of a pool (10, 10 and min(n, 5) in the scrapers)
MaxWorkers == 2

(* ------------------------------------------------------- program constants *)
\* articles[:100] in smart_dom_extract
DomCap == 100
\* list(set(failed_api_endpoints))[:5] in main
NativeFetchCap == 5
\* len(dom_data["articles"]) > 2 in main
StrongDomArticles == 2
\* api_server.CACHE_TTL_SECONDS
CACHE_TTL_SECONDS == 300

(* ------------------------------------------------------------------ text *)
\* str.lower() on the letters the model uses
LowerChar(c) ==
    CASE c = "G" -> "g"
      [] c = "O" -> "o"
      [] c = "K" -> "k"
      [] c = "A" -> "a"
      [] c = "P" -> "p"
      [] c = "I" -> "i"
      [] OTHER -> c

lower(s) == [i \in 1..Len(s) |-> LowerChar(s[i])]

\* Python's  sub in s  for strings
In(sub, s) ==
    \E i \in 0..(Len(s) - Len(sub)) : \A j \in 1..Len(sub) : s[i + j] = sub[j]

\* settings.TARGET_KEYWORDS (two representatives of the sixteen keywords)
TARGET_KEYWORDS == << <<"g">>, <<"o", "k">> >>

\* the literal "api" of main's blocked-endpoint test
ApiWord == <<"a", "p", "i">>

\* any(kw.lower() in text.lower() for kw in target_keywords)
KeywordIn(text, keywords) ==
    \E k \in 1..Len(keywords) : In(lower(keywords[k]), lower(text))

(* --------------------------------------------------- captured responses *)
CT_JSON == "application/json"
CT_HTML == "text/html"

Resp(u, s, c, f, b) ==
    [url |-> u, status |-> s, content_type |-> c, form |-> f, body |-> b]

\* The syntactic class of a body:
\*   empty    ""                                   json     parses as JSON
\*   wrapped  JSON object with one long string     b64json  base64 of a JSON text
\*   b64junk  base64/hex letters, not JSON inside  text     anything else (truncated JSON, HTML)
BodyForms == {"empty", "json", "wrapped", "b64json", "b64junk", "text"}

URL_API  == <<"z", "A", "P", "I">>
URL_KW   == <<"g", "z">>
URL_NONE == <<"z">>

SampleResponses ==
    { Resp(URL_API,  403, CT_JSON, "empty",   <<>>),
      Resp(URL_NONE, 200, CT_JSON, "json",    <<"z", "G">>),
      Resp(URL_KW,   200, CT_HTML, "json",    <<"z">>),
      Resp(URL_NONE, 200, CT_JSON, "json",    <<"z">>),
      Resp(URL_NONE, 200, CT_JSON, "text",    <<"O", "K">>),
      Resp(URL_NONE, 200, CT_JSON, "b64json", <<"z">>),
      Resp(URL_NONE, 200, CT_JSON, "b64junk", <<"z">>),
      Resp(URL_KW,   200, CT_HTML, "empty",   <<>>) }

RECURSIVE SeqsUpTo(_, _)
SeqsUpTo(S, n) ==
    IF n = 0 THEN { <<>> }
    ELSE LET shorter == SeqsUpTo(S, n - 1)
         IN  shorter \cup { Append(q, x) : q \in { t \in shorter : Len(t) = n - 1 }, x \in S }

(* ------------------------------------------------------------------ pages *)
\* A page is the HTML of the capture, described by what the parsers find in it.
\*   empty    html_content == ""
\*   markers  CAPTCHA vendor words occurring in the text, as written
\*   cards    the card-like elements in document order; TRUE = has a title or an href
\*   video    an iframe whose src is neither youtube nor ads
\*   inline   the JSON-looking script blocks / data attributes, in document order
\*   tables   the <table> elements, in document order
\*   wp       "none", "wp" (wp-content in the HTML), "wp_pid" (and a post id)
\*   longText the visible text has at least 100 characters
InlineItem(t, p, b, s) == [type |-> t, parses |-> p, text |-> b, shape |-> s]
TableItem(b, g) == [text |-> b, gold |-> g]

Page(e, m, c, v, i, t, w, l) ==
    [empty |-> e, markers |-> m, cards |-> c, video |-> v, inline |-> i,
     tables |-> t, wp |-> w, longText |-> l]

AllCards(n) == [i \in 1..n |-> TRUE]

EmptyPage == Page(TRUE, {}, <<>>, FALSE, <<>>, <<>>, "none", FALSE)
BarePage  == Page(FALSE, {}, <<>>, FALSE, <<>>, <<>>, "none", TRUE)

SamplePages ==
    { EmptyPage, BarePage,
      Page(FALSE, {"HCaptcha"}, <<>>, FALSE, <<>>, <<>>, "none", FALSE),
      Page(FALSE, {"cf-turnstile", "G-RECAPTCHA"}, AllCards(MaxCards), FALSE, <<>>, <<>>, "none", TRUE),
      Page(FALSE, {}, <<>>, TRUE, <<>>, <<>>, "none", FALSE),
      Page(FALSE, {}, <<FALSE>>, FALSE, <<>>, <<>>, "wp_pid", TRUE),
      Page(FALSE, {}, <<>>, FALSE, <<InlineItem("ld+json", TRUE, <<"z">>, "plain")>>, <<>>, "none", TRUE),
      Page(FALSE, {}, <<>>, FALSE, <<InlineItem("ld+json", TRUE, <<"z">>, "props_null")>>, <<>>, "none", TRUE),
      Page(FALSE, {}, <<>>, FALSE, <<InlineItem("inline_script", FALSE, <<"g">>, "plain")>>,
           <<TableItem(<<"z">>, TRUE), TableItem(<<"O", "k">>, TRUE)>>, "wp", TRUE) }
    \cup { Page(FALSE, {}, AllCards(n), FALSE, <<>>, <<>>, "none", TRUE) : n \in 1..MaxCards }

\* websocket frames: [data |-> letters, parses |-> json.loads succeeds]
SampleFrames == { <<>>, << [data |-> <<"G">>, parses |-> TRUE] >>,
                  << [data |-> <<"g">>, parses |-> FALSE], [data |-> <<"z">>, parses |-> TRUE] >> }

\* network_capture.CaptureResult; present = FALSE stands for capture_result = None
CaptureResult(rs, ws, html) ==
    [present |-> TRUE, responses |-> rs, websocket_messages |-> ws, html_content |-> html]

NoCapture ==
    [present |-> FALSE, responses |-> <<>>, websocket_messages |-> <<>>, html_content |-> EmptyPage]

Captures ==
    { CaptureResult(rs, <<>>, p) : rs \in SeqsUpTo(SampleResponses, MaxResp), p \in SamplePages }
    \cup { CaptureResult(<<>>, ws, BarePage) : ws \in SampleFrames }

(* -------------------------------------------------------- signal detectors *)
\* str.lower() on the vendor words the model uses
LowerWord(w) ==
    CASE w = "HCaptcha" -> "hcaptcha"
      [] w = "G-RECAPTCHA" -> "g-recaptcha"
      [] OTHER -> w

CaptchaIndicators == <<"g-recaptcha", "hcaptcha", "cf-turnstile", "arkose", "funcaptcha">>

\* anti_detect.detect_captcha: the first indicator found in the lowered HTML, "" for False
detect_captcha(html) ==
    LET found == { i \in 1..Len(CaptchaIndicators) :
                     \E m \in html.markers : LowerWord(m) = CaptchaIndicators[i] }
    IN  IF html.empty \/ found = {} THEN ""
        ELSE CaptchaIndicators[CHOOSE i \in found : \A j \in found : i <= j]

\* analysis.is_json_valid on a body of the given form
is_json_valid(form) == form \in {"json", "wrapped"}

\* analysis.is_encrypted
is_encrypted(capture) ==
    \E k \in 1..Len(capture.responses) :
        LET r == capture.responses[k]
        IN  /\ r.content_type = CT_JSON
            /\ \/ ~is_json_valid(r.form) /\ r.form \in {"b64json", "b64junk"}
               \/ is_json_valid(r.form) /\ r.form = "wrapped"

\* decryption.try_decrypt: the URLs whose body base64-decodes to JSON ({} stands for None)
try_decrypt(capture) ==
    { capture.responses[k].url : k \in { j \in 1..Len(capture.responses) :
          /\ capture.responses[j].form \in {"b64json", "b64junk", "text"}
          /\ capture.responses[j].form = "b64json" } }

(* ----------------------------------------------------------- extractors *)
RECURSIVE CountTrue(_)
CountTrue(q) == IF q = <<>> THEN 0 ELSE (IF Head(q) THEN 1 ELSE 0) + CountTrue(Tail(q))

Min(a, b) == IF a < b THEN a ELSE b

\* smart_dom_extract without the  [:100]  on the list of cards
smart_dom_extract_Uncapped(html) ==
    IF html.empty THEN [articles |-> 0, video_embeds |-> FALSE]
    ELSE [articles |-> CountTrue(html.cards), video_embeds |-> html.video]

\* analysis.smart_dom_extract: number of articles and whether video_embeds is present
smart_dom_extract(html) ==
    IF html.empty THEN [articles |-> 0, video_embeds |-> FALSE]
    ELSE [articles |-> CountTrue(SubSeq(html.cards, 1, Min(Len(html.cards), DomCap))),
          video_embeds |-> html.video]

NoDom == [articles |-> 0, video_embeds |-> FALSE]

\* truth value of the dict smart_dom_extract returns
DomTruthy(d) == d.articles > 0 \/ d.video_embeds

\* analysis.extract_inline_json: every block that parses; target_keywords is not consulted
extract_inline_json(html, target_keywords) ==
    IF html.empty THEN <<>>
    ELSE SelectSeq(html.inline, LAMBDA it : it.parses)

\* analysis.extract_html_tables: the tables whose text contains a keyword
extract_html_tables(html, target_keywords) ==
    IF html.empty THEN <<>>
    ELSE SelectSeq(html.tables, LAMBDA t : KeywordIn(t.text, target_keywords))

\* analysis.structure_gold_data: TRUE when a price map was built
structure_gold_data(tables, inline) ==
    \/ \E k \in 1..Len(tables) : tables[k].gold
    \/ \E k \in 1..Len(inline) : inline[k].type = "inline_script" /\ inline[k].shape = "vue_gold"

\* analysis.structure_stock_data raises AttributeError on  "props": null
StockDataRaises(inline) ==
    \E k \in 1..Len(inline) :
        inline[k].type \in {"inline_script", "ld+json"} /\ inline[k].shape = "props_null"

\* analysis.structure_stock_data: TRUE when a ticker map was built
structure_stock_data(inline) ==
    \E k \in 1..Len(inline) :
        inline[k].type \in {"inline_script", "ld+json"} /\ inline[k].shape = "stocks"

\* HarvestedUrls that trusts the declared content type and skips json.loads
HarvestedUrls_Unparsed(capture, target_keywords) ==
    { capture.responses[k].url : k \in { j \in 1..Len(capture.responses) :
        LET r == capture.responses[j]
        IN  /\ r.content_type = CT_JSON \/ is_json_valid(r.form)
            /\ \E n \in 1..Len(target_keywords) :
                  \/ In(lower(target_keywords[n]), lower(r.body))
                  \/ In(lower(target_keywords[n]), lower(r.url)) } }

\* step 1 of find_json: the URLs of the responses accepted by the keyword gate
HarvestedUrls(capture, target_keywords) ==
    { capture.responses[k].url : k \in { j \in 1..Len(capture.responses) :
        LET r == capture.responses[j]
        IN  /\ r.content_type = CT_JSON \/ is_json_valid(r.form)
            /\ is_json_valid(r.form)
            /\ \E n \in 1..Len(target_keywords) :
                  \/ In(lower(target_keywords[n]), lower(r.body))
                  \/ In(lower(target_keywords[n]), lower(r.url)) } }

\* step 3 of find_json: the websocket frames that are JSON and contain a keyword
HarvestedFrames(capture, target_keywords) ==
    SelectSeq(capture.websocket_messages,
              LAMBDA m : m.parses /\ KeywordIn(m.data, target_keywords))

FoundData(u, i, w, t, g, s) ==
    [urls |-> u, inline_html_data |-> i, websocket_data |-> w, html_tables_data |-> t,
     structured_gold_prices |-> g, structured_stocks |-> s]

NoFound == FoundData({}, <<>>, <<>>, <<>>, FALSE, FALSE)

\* truth value of the found_data dict
FoundTruthy(f) ==
    \/ f.urls # {} \/ f.inline_html_data # <<>> \/ f.websocket_data # <<>>
    \/ f.html_tables_data # <<>> \/ f.structured_gold_prices \/ f.structured_stocks

\* analysis.find_json.  tag: "raise" (an exception leaves the function),
\* "data" (found_data returned), "smart_dom" ({"smart_dom": ...} returned), "none" (None)
find_json(capture, target_keywords) ==
    LET urls   == HarvestedUrls(capture, target_keywords)
        inline == extract_inline_json(capture.html_content, target_keywords)
        ws     == HarvestedFrames(capture, target_keywords)
        tables == extract_html_tables(capture.html_content, target_keywords)
        gold   == structure_gold_data(tables, inline)
        found  == FoundData(urls, inline, ws, tables, gold, structure_stock_data(inline))
        dom    == smart_dom_extract(capture.html_content)
    IN  IF StockDataRaises(inline) THEN [tag |-> "raise", found |-> NoFound, dom |-> NoDom]
        ELSE IF FoundTruthy(found) THEN [tag |-> "data", found |-> found, dom |-> NoDom]
        ELSE IF DomTruthy(dom) THEN [tag |-> "smart_dom", found |-> NoFound, dom |-> dom]
        ELSE [tag |-> "none", found |-> NoFound, dom |-> NoDom]

\* main, lines 68-73: the blocked or empty API endpoints, in response order
RECURSIVE FailedEndpoints(_, _)
FailedEndpoints(responses, target_keywords) ==
    IF responses = <<>> THEN <<>>
    ELSE LET r == Head(responses)
             rest == FailedEndpoints(Tail(responses), target_keywords)
         IN  IF /\ r.status \in {401, 403, 400} \/ (r.status = 200 /\ r.form = "empty")
                /\ In(ApiWord, lower(r.url)) \/ KeywordIn(r.url, target_keywords)
             THEN <<r.url>> \o rest
             ELSE rest

\* main, line 108: list(set(failed_api_endpoints))[:5]; the order of a set is arbitrary
UniqueEndpointChoices(failed) ==
    LET all == { failed[k] : k \in 1..Len(failed) }
    IN  IF Cardinality(all) <= NativeFetchCap THEN { all }
        ELSE { s \in SUBSET all : Cardinality(s) = NativeFetchCap }

(* ---------------------------------------------------------- configuration *)
\* config/settings.py: the switches main reads.  The API keys are kept as
\* "" (not set), "your_key_here" (the placeholder) or "key" (a real key).
Settings(llm, llmKey, unlocker, unlockerKey) ==
    [USE_LLM_PARSER |-> llm, OPENROUTER_API_KEY |-> llmKey,
     USE_WEB_UNLOCKER |-> unlocker, WEB_UNLOCKER_API_KEY |-> unlockerKey]

DefaultSettings == Settings(TRUE, "key", FALSE, "your_key_here")

SampleSettings ==
    { DefaultSettings,
      Settings(TRUE, "", TRUE, "key"),
      Settings(FALSE, "key", TRUE, "your_key_here") }

\* What the target serves to a plain HTTP client.
\*   plain   "error" (no connection), "html" (a page), "json" (the URL itself is a JSON endpoint)
\*   ssr     "none", "next" (a parseable __NEXT_DATA__ block), "next_bad" (an unparseable one),
\*           "nuxt" (a parseable window.__NUXT__ assignment)
\*   api     the suffixes of COMMON_API_ENDPOINTS that answer with JSON
\*   tables  the static HTML holds a table with at least two cells per row
Site(p, s, a, t) == [plain |-> p, ssr |-> s, api |-> a, tables |-> t]

WP_POSTS == "/wp-json/wp/v2/posts"

SampleSites ==
    { Site("html", "none", {}, FALSE),
      Site("html", "next", {}, FALSE),
      Site("html", "nuxt", {WP_POSTS}, FALSE),
      Site("html", "none", {WP_POSTS}, TRUE),
      Site("error", "none", {}, FALSE) }

(* ------------------------------------------------------------------ state *)
VARIABLES
    pipeline,              \* "main" (main.main) or "menu" (menu._scrape_single_url)
    settings,              \* the configuration of the process
    site,                  \* the target as seen by a plain HTTP client
    pc,                    \* the position of the run in the pipeline
    capture_result,        \* main's capture_result
    data,                  \* main's local  data : [bound, val]
    failed_api_endpoints,  \* main's failed_api_endpoints
    result,                \* how the run ended: [status, method, value]
    files,                 \* the files written to hasil_scrape/, in order
    invoked,               \* the strategies invoked so far, in order
    accepted,              \* the strategies that produced an accepted candidate
    browser_sessions,      \* browser sessions launched by the run
    solver_calls,          \* calls of fallback.solve_captcha_external
    save_calls,            \* calls of main.save_data
    llm_requests           \* requests sent to the LLM service

pipelineVars ==
    <<pipeline, settings, site, pc, capture_result, data, failed_api_endpoints,
      result, files, invoked, accepted, browser_sessions, solver_calls, save_calls,
      llm_requests>>

(* ------------------------------------------------- the other components *)
\* The result files on disk (main.save_data, scrape_zeldaeternity.quick_scrape)
VARIABLES
    clock,                 \* int(time.time()), in seconds
    disk,                  \* file name -> the run that wrote the file's content
    store_runs             \* runs that have written their result so far

storeVars == <<clock, disk, store_runs>>

\* no run has written anything
StoreIdle == clock = 0 /\ disk = {} /\ store_runs = 0

\* analysis.smart_dom_extract applied to one page
VARIABLES
    dom_page,              \* the page handed to smart_dom_extract
    dom_out                \* [returned, value]: what the call returned

domVars == <<dom_page, dom_out>>

DomIdle == dom_page = EmptyPage /\ dom_out = [returned |-> FALSE, value |-> NoDom]

\* api_server: the in-memory cache and the stocks refresh job
VARIABLES
    api_now,               \* time.time() of the server, in seconds
    cache,                 \* _cache: file pattern -> entry (data, ts) or no entry
    data_files,            \* file pattern -> version of the newest file on disk, 0 = none
    refresh_status,        \* refresh_status: [is_running, last_result]
    handlers,              \* request -> [pc, code] of its refresh_stocks handler
    jobs,                  \* request -> position of the run_scraper thread it started
    scraper_starts         \* subprocess.run calls so far

apiVars == <<api_now, cache, data_files, refresh_status, handlers, jobs, scraper_starts>>

\* the file patterns the endpoints read
Patterns == {"pluang_all_stocks_*.json", "idx_combined_*.json"}

STOCKS == "pluang_all_stocks_*.json"

\* pattern not in _cache
NoEntry == [present |-> FALSE, data |-> 0, ts |-> 0]

Requests == 1..MaxRequests

ApiIdle ==
    /\ api_now = 0
    /\ cache = [p \in Patterns |-> NoEntry]
    /\ data_files = [p \in Patterns |-> 0]
    /\ refresh_status = [is_running |-> FALSE, last_result |-> "None"]
    /\ handlers = [r \in Requests |-> [pc |-> "new", code |-> 0]]
    /\ jobs = [r \in Requests |-> "none"]
    /\ scraper_starts = 0

\* a pooled listing scrape: run_full_scrape of scrape_drakorkita and
\* scrape_zeldaeternity, run_custom_scrape of scrape_custom_film
VARIABLES
    pool_kind,             \* which scraper runs
    pool_episodes,         \* scrape_episodes (drakorkita: a second pool scrapes the episodes)
    stage,                 \* "details" (the detail pool) or "episodes" (drakorkita's second pool)
    main_pc,               \* position of the main thread
    interrupted,           \* the user has pressed Ctrl-C
    submitted,             \* work items handed to executor.submit so far
    item,                  \* work item -> [st, out]: its state and the outcome of its fetch
    lock,                  \* the pool's lock: 0 when free, else the item whose worker holds it
    results,               \* the shared results list (details / all_results), as item numbers
    completed,             \* the completion counter completed[0]
    late_starts,           \* the items a worker started after the interrupt
    output                 \* the output file: [written, data]

poolVars == <<pool_kind, pool_episodes, stage, main_pc, interrupted, submitted, item, lock,
              results, completed, late_starts, output>>

Items == 1..MaxItems

NewItem == [st |-> "new", out |-> ""]

PoolIdle ==
    /\ pool_kind = "none" /\ pool_episodes = FALSE /\ stage = "details"
    /\ main_pc = "idle" /\ interrupted = FALSE /\ submitted = 0
    /\ item = [i \in Items |-> NewItem] /\ lock = 0
    /\ results = <<>> /\ completed = 0 /\ late_starts = {}
    /\ output = [written |-> FALSE, data |-> <<>>]

\* one call of direct_request.try_common_endpoints
VARIABLES
    server,                \* URL -> what the site answers to a GET of it
    requested,             \* the URLs requested so far, in order
    probe                  \* the call: [pc, k, value]; k is the loop's position in the suffix list

probeVars == <<server, requested, probe>>

\* what try_common_endpoints returns when it found nothing
None == [url |-> [suffix |-> "", page |-> FALSE], answer |-> "None"]

ProbeIdle == server = <<>> /\ requested = <<>> /\ probe = [pc |-> "idle", k |-> 0, value |-> None]

\* one replay of blocked endpoints: network_capture.native_browser_fetch as
\* main calls it in Layer 4
VARIABLES
    api_endpoints,         \* the endpoints handed over (unique_eps), as 1..n
    fetch_res,             \* what page.evaluate returned for the endpoints replayed so far
    fetched_data,          \* the endpoints kept, i.e. the keys of the dict that is returned
    native                 \* [pc, layer4]: position, and what Layer 4 made of the result

fetchVars == <<api_endpoints, fetch_res, fetched_data, native>>

FetchIdle ==
    /\ api_endpoints = <<>> /\ fetch_res = <<>> /\ fetched_data = {}
    /\ native = [pc |-> "idle", layer4 |-> ""]

\* one browser-driven fetch: network_capture.capture (main's Layer 2) or
\* menu.technique_network_capture
VARIABLES
    adapter,               \* which of the two functions runs
    nav,                   \* [pc, waits, outcomes]: position, the wait_until modes tried, what goto did
    loaded,                \* the page has a document whose HTML page.content() can return
    recorded,              \* responses and WebSocket frames the listeners have recorded
    nav_result             \* [status, html, responses]: what the function returned

navVars == <<adapter, nav, loaded, recorded, nav_result>>

NavRunning == [status |-> "running", html |-> FALSE, responses |-> 0]

NavIdle ==
    /\ adapter = "none" /\ nav = [pc |-> "idle", waits |-> <<>>, outcomes |-> <<>>]
    /\ loaded = FALSE /\ recorded = 0 /\ nav_result = NavRunning

\* the HTTP fetches of one work item: _get_html of scrape_custom_film, or
\* scrape_detail of scrape_drakorkita as its detail worker calls it
VARIABLES
    fetcher,               \* [fn, base, retries, calls]: the function, its base timeout, its
                           \* attempts per call, and how often the work item may call it
    attempts,              \* the SESSION.get calls made for the work item: [timeout, ok] each
    fetching               \* [pc, attempt, retry, last_error, value]

retryVars == <<fetcher, attempts, fetching>>

RetryIdle ==
    /\ fetcher = [fn |-> "none", base |-> 0, retries |-> 0, calls |-> 0]
    /\ attempts = <<>>
    /\ fetching = [pc |-> "idle", attempt |-> 0, retry |-> 0, last_error |-> "", value |-> "None"]

\* one call of scrape_custom_film._scrape_episodes_with_verification
VARIABLES
    episodes,              \* the input list: [label, url] per episode
    max_retries,           \* the parameter max_retries
    ep_results,            \* the list  results : NoSlot, or [label, url, video_embed] per slot
    ep,                    \* [pc, pending, missing, still_missing, retry_round, order, raised]
    rounds                 \* the rounds started so far: [kind, tried, empty] each

episodeVars == <<episodes, max_retries, ep_results, ep, rounds>>

\* the embed an episode got, tagged with the round that found it
Embed(kind, round) == [by |-> kind, round |-> round]

\* an empty video_embed
NoEmbed == Embed("", 0)

\* a slot of  results  that is still None
NoSlot == [label |-> <<"Episode", 0>>, url |-> <<"/episode", 0>>, video_embed |-> Embed("None", 0)]

EpisodesIdle ==
    /\ episodes = <<>> /\ max_retries = 0 /\ ep_results = <<>> /\ rounds = <<>>
    /\ ep = [pc |-> "idle", pending |-> {}, missing |-> {}, still_missing |-> {},
             retry_round |-> 0, order |-> <<>>, raised |-> {}]

\* api_server.load_json_cached of one pattern, step by step, next to the
\* thread of one refresh job (run_scraper)
VARIABLES
    race_now,              \* time.time(), in seconds
    newest_file,           \* the version of the newest file matching the pattern
    cache_entry,           \* _cache[pattern]: NoEntry, or [present, data, ts]
    calls,                 \* call -> [pc, now, data, after_clear, ret]: the calls of load_json_cached
    refresher              \* the refresh thread: "running", "written" (the scraper has exited), "cleared"

raceVars == <<race_now, newest_file, cache_entry, calls, refresher>>

\* a call of load_json_cached that has not begun
NoCall == [pc |-> "idle", now |-> 0, data |-> 0, after_clear |-> FALSE, ret |-> 0]

RaceIdle ==
    /\ race_now = 0 /\ newest_file = 0 /\ cache_entry = NoEntry
    /\ calls = <<>> /\ refresher = "none"

\* the scrapers' components (everything outside main, the menu and the API server)
scraperVars == <<probeVars, fetchVars, navVars, retryVars, episodeVars, raceVars>>
ScrapersIdle == ProbeIdle /\ FetchIdle /\ NavIdle /\ RetryIdle /\ EpisodesIdle /\ RaceIdle

\* everything but the variables of one component
coreVars == <<pipelineVars, storeVars, domVars, apiVars, poolVars>>
notPipeline == <<storeVars, domVars, apiVars, poolVars, scraperVars>>
notStore == <<pipelineVars, domVars, apiVars, poolVars, scraperVars>>
notDom == <<pipelineVars, storeVars, apiVars, poolVars, scraperVars>>
notApi == <<pipelineVars, storeVars, domVars, poolVars, scraperVars>>
notPool == <<pipelineVars, storeVars, domVars, apiVars, scraperVars>>
notProbe == <<coreVars, fetchVars, navVars, retryVars, episodeVars, raceVars>>
notFetch == <<coreVars, probeVars, navVars, retryVars, episodeVars, raceVars>>
notNav == <<coreVars, probeVars, fetchVars, retryVars, episodeVars, raceVars>>
notRetry == <<coreVars, probeVars, fetchVars, navVars, episodeVars, raceVars>>
notEpisodes == <<coreVars, probeVars, fetchVars, navVars, retryVars, raceVars>>
notRace == <<coreVars, probeVars, fetchVars, navVars, retryVars, episodeVars>>

vars == <<coreVars, scraperVars>>

Unbound == [bound |-> FALSE, val |-> [tag |-> "none", found |-> NoFound, dom |-> NoDom]]

Running == [status |-> "running", method |-> "", value |-> ""]

\* no run of main.main or of the menu is in progress
PipelineIdle ==
    /\ pipeline = "none" /\ settings = DefaultSettings /\ site = Site("error", "none", {}, FALSE)
    /\ pc = "done" /\ capture_result = NoCapture /\ data = Unbound
    /\ failed_api_endpoints = <<>> /\ result = Running /\ files = <<>>
    /\ invoked = <<>> /\ accepted = {} /\ browser_sessions = 0
    /\ solver_calls = 0 /\ save_calls = 0 /\ llm_requests = 0

\* nothing of main, the menu, the file store or the API server is running
CoreIdle == PipelineIdle /\ StoreIdle /\ DomIdle /\ ApiIdle /\ PoolIdle

Init ==
    /\ pipeline \in {"main", "menu"}
    /\ settings \in (IF pipeline = "main" THEN SampleSettings ELSE {DefaultSettings})
    /\ site \in SampleSites
    /\ pc = (IF pipeline = "main" THEN "L1" ELSE "M_ssr")
    /\ capture_result = NoCapture
    /\ data = Unbound
    /\ failed_api_endpoints = <<>>
    /\ result = Running
    /\ files = <<>>
    /\ invoked = <<>>
    /\ accepted = {}
    /\ browser_sessions = 0
    /\ solver_calls = 0
    /\ save_calls = 0
    /\ llm_requests = 0
    /\ StoreIdle /\ DomIdle /\ ApiIdle /\ PoolIdle /\ ScrapersIdle

(* ------------------------------------------------------------- main.main *)
\* main.save_data: the run returns whatever the write does.  A failed write
\* is caught and logged, and the bare data is returned instead of the envelope.
\*   ok           the file is written in full
\*   open_failed  makedirs/open raised: no file
\*   dump_failed  json.dump raised half-way (disk full): a truncated file is left
WriteOutcomes == {"ok", "open_failed", "dump_failed"}

save_data(method) ==
    \E w \in WriteOutcomes :
        /\ files' = (IF w = "open_failed" THEN files
                     ELSE Append(files, [method |-> method, complete |-> (w = "ok")]))
        /\ result' = [status |-> "returned", method |-> method,
                      value |-> (IF w = "ok" THEN "final_data" ELSE "data")]
        /\ save_calls' = save_calls + 1
        /\ pc' = "done"

\* the run goes on to the next layer without saving
Continue(next) ==
    /\ pc' = next
    /\ UNCHANGED <<result, files, save_calls>>

\* direct_request.request(url, timeout=10, proxies=None, headers=None)
RequestParameters == {"url", "timeout", "proxies", "headers"}

\* the arguments main passes in Layer 1
Layer1Arguments == {"url", "timeout", "proxies", "return_raw"}

\* direct_request.request: the parsed JSON ("json") or None ("none"); never the raw text
request(s) == IF s.plain = "json" THEN "json" ELSE "none"

\* direct_request.COMMON_API_ENDPOINTS
COMMON_API_ENDPOINTS ==
    <<"/api/data", "/api/v1/data", "/data.json", "/graphql", "/api/items",
      "/wp-json/wp/v2/posts", "/api/values", "/openapi.json", "/api/search", "/api/products">>

\* direct_request.try_common_endpoints: the base URL first, then every suffix
\* bare and with ?page=1; "json" for the first truthy JSON answer, else "none"
try_common_endpoints(s) ==
    IF request(s) = "json" THEN "json"
    ELSE IF \E k \in 1..Len(COMMON_API_ENDPOINTS) : COMMON_API_ENDPOINTS[k] \in s.api THEN "json"
    ELSE "none"

\* LAYER 1 (main, lines 33-42).  Calling request with a keyword it does not
\* have raises TypeError, which the layer's  except Exception  swallows.
Layer1 ==
    /\ pipeline = "main" /\ pc = "L1"
    /\ invoked' = Append(invoked, "layer1_ssr_parser")
    /\ IF Layer1Arguments \subseteq RequestParameters
       THEN \* html_req is a parsed JSON value or None, isinstance(html_req, str) is false
            /\ request(site) \in {"json", "none"}
            /\ Continue("L2_capture")
       ELSE Continue("L2_capture")
    /\ UNCHANGED <<pipeline, settings, site, capture_result, data, failed_api_endpoints,
                   accepted, browser_sessions, solver_calls>>
    /\ UNCHANGED <<llm_requests, notPipeline>>

\* LAYER 2, network_capture.capture (main, lines 52-56).  The capture either
\* returns a CaptureResult (possibly with empty HTML after a failed navigation)
\* or raises (no browser can be launched), which main catches at line 75.
Layer2Capture ==
    /\ pipeline = "main" /\ pc = "L2_capture"
    /\ invoked' = Append(invoked, "layer2_network_capture")
    /\ \/ /\ capture_result' \in Captures
          /\ browser_sessions' = browser_sessions + 1
          /\ Continue("L2_captcha")
       \/ /\ UNCHANGED <<capture_result, browser_sessions>>
          /\ Continue("L3")
    /\ UNCHANGED <<pipeline, settings, site, data, failed_api_endpoints, accepted, solver_calls>>
    /\ UNCHANGED <<llm_requests, notPipeline>>

\* CheckingCaptcha with a detected CAPTCHA treated as a hard stop
CheckingCaptcha_HardStop ==
    /\ pipeline = "main" /\ pc = "L2_captcha"
    /\ IF detect_captcha(capture_result.html_content) # ""
       THEN /\ solver_calls' = solver_calls + 1
            /\ result' = [status |-> "nodata", method |-> "", value |-> "None"]
            /\ pc' = "done"
            /\ UNCHANGED <<files, save_calls>>
       ELSE /\ UNCHANGED solver_calls
            /\ Continue("L2_find_json")
    /\ UNCHANGED <<pipeline, settings, site, capture_result, data, failed_api_endpoints,
                   invoked, accepted, browser_sessions>>
    /\ UNCHANGED <<llm_requests, notPipeline>>

\* main, lines 58-62: CAPTCHA check; the solver is a placeholder returning None
CheckingCaptcha ==
    /\ pipeline = "main" /\ pc = "L2_captcha"
    /\ solver_calls' = (IF detect_captcha(capture_result.html_content) # ""
                        THEN solver_calls + 1 ELSE solver_calls)
    /\ Continue("L2_find_json")
    /\ UNCHANGED <<pipeline, settings, site, capture_result, data, failed_api_endpoints,
                   invoked, accepted, browser_sessions>>
    /\ UNCHANGED <<llm_requests, notPipeline>>

\* Layer2FindJson with an except block that gives up the run
Layer2FindJson_Abort ==
    /\ pipeline = "main" /\ pc = "L2_find_json"
    /\ LET r == find_json(capture_result, TARGET_KEYWORDS)
       IN  IF r.tag = "raise"
           THEN /\ UNCHANGED <<data, failed_api_endpoints, accepted>>
                /\ result' = [status |-> "nodata", method |-> "", value |-> "None"]
                /\ pc' = "done"
                /\ UNCHANGED <<files, save_calls>>
           ELSE /\ data' = [bound |-> TRUE, val |-> r]
                /\ failed_api_endpoints' = FailedEndpoints(capture_result.responses, TARGET_KEYWORDS)
                /\ accepted' = (IF r.tag = "data" THEN accepted \cup {"layer2_network_capture"}
                                ELSE accepted)
                /\ Continue("L3")
    /\ UNCHANGED <<pipeline, settings, site, capture_result, invoked, browser_sessions, solver_calls>>
    /\ UNCHANGED <<llm_requests, notPipeline>>

\* main, lines 64-76: find_json and the collection of blocked endpoints.  An
\* exception in find_json leaves  data  unassigned and the endpoint list empty.
Layer2FindJson ==
    /\ pipeline = "main" /\ pc = "L2_find_json"
    /\ LET r == find_json(capture_result, TARGET_KEYWORDS)
       IN  IF r.tag = "raise"
           THEN UNCHANGED <<data, failed_api_endpoints, accepted>>
           ELSE /\ data' = [bound |-> TRUE, val |-> r]
                /\ failed_api_endpoints' = FailedEndpoints(capture_result.responses, TARGET_KEYWORDS)
                /\ accepted' = (IF r.tag = "data" THEN accepted \cup {"layer2_network_capture"}
                                ELSE accepted)
    /\ Continue("L3")
    /\ UNCHANGED <<pipeline, settings, site, capture_result, invoked, browser_sessions, solver_calls>>
    /\ UNCHANGED <<llm_requests, notPipeline>>

\* StrongDom without the minimum count: any non-empty DOM finding
StrongDom_AnyResult(d) == DomTruthy(d)

\* main, line 89: the DOM finding is strong
StrongDom(d) == DomTruthy(d) /\ (d.articles > StrongDomArticles \/ d.video_embeds)

\* save_data called without  return : the file is written and the run goes on
SaveAndGoOn(method, next) ==
    \E w \in WriteOutcomes :
        /\ files' = (IF w = "open_failed" THEN files
                     ELSE Append(files, [method |-> method, complete |-> (w = "ok")]))
        /\ save_calls' = save_calls + 1
        /\ pc' = next
        /\ UNCHANGED result

\* Layer3 without the  return  in front of save_data
Layer3_NoReturn ==
    /\ pipeline = "main" /\ pc = "L3"
    /\ IF capture_result.present /\ ~capture_result.html_content.empty
       THEN /\ invoked' = Append(invoked, "layer3_smart_dom")
            /\ IF StrongDom(smart_dom_extract(capture_result.html_content))
               THEN /\ accepted' = accepted \cup {"layer3_smart_dom"}
                    /\ SaveAndGoOn("layer3_smart_dom", "L2_eval")
               ELSE /\ UNCHANGED accepted
                    /\ Continue("L2_eval")
       ELSE /\ UNCHANGED <<invoked, accepted>>
            /\ Continue("L2_eval")
    /\ UNCHANGED <<pipeline, settings, site, capture_result, data, failed_api_endpoints,
                   browser_sessions, solver_calls>>
    /\ UNCHANGED <<llm_requests, notPipeline>>

\* LAYER 3 (main, lines 83-91): the DOM parser runs before the Layer 2 result is looked at
Layer3 ==
    /\ pipeline = "main" /\ pc = "L3"
    /\ IF capture_result.present /\ ~capture_result.html_content.empty
       THEN /\ invoked' = Append(invoked, "layer3_smart_dom")
            /\ IF StrongDom(smart_dom_extract(capture_result.html_content))
               THEN /\ accepted' = accepted \cup {"layer3_smart_dom"}
                    /\ save_data("layer3_smart_dom")
               ELSE /\ UNCHANGED accepted
                    /\ Continue("L2_eval")
       ELSE /\ UNCHANGED <<invoked, accepted>>
            /\ Continue("L2_eval")
    /\ UNCHANGED <<pipeline, settings, site, capture_result, data, failed_api_endpoints,
                   browser_sessions, solver_calls>>
    /\ UNCHANGED <<llm_requests, notPipeline>>

\* Layer2Eval that never goes back to the Layer 2 result
Layer2Eval_Skip ==
    /\ pipeline = "main" /\ pc = "L2_eval"
    /\ IF ~data.bound
       THEN /\ result' = [status |-> "raised", method |-> "", value |-> "UnboundLocalError"]
            /\ pc' = "done"
            /\ UNCHANGED <<files, save_calls>>
       ELSE Continue("L4")
    /\ UNCHANGED <<pipeline, settings, site, capture_result, data, failed_api_endpoints,
                   invoked, accepted, browser_sessions, solver_calls>>
    /\ UNCHANGED <<llm_requests, notPipeline>>

\* main, lines 96-98: back to the Layer 2 result.  Reading  data  when Layer 2
\* never assigned it raises UnboundLocalError, which nothing catches.
Layer2Eval ==
    /\ pipeline = "main" /\ pc = "L2_eval"
    /\ IF ~data.bound
       THEN /\ result' = [status |-> "raised", method |-> "", value |-> "UnboundLocalError"]
            /\ pc' = "done"
            /\ UNCHANGED <<files, save_calls>>
       ELSE IF data.val.tag = "data"
       THEN save_data("layer2_network_capture")
       ELSE Continue("L4")
    /\ UNCHANGED <<pipeline, settings, site, capture_result, data, failed_api_endpoints,
                   invoked, accepted, browser_sessions, solver_calls>>
    /\ UNCHANGED <<llm_requests, notPipeline>>

\* network_capture.native_browser_fetch, per endpoint: what page.evaluate returns
\*   object       a JSON object without an error field
\*   error_object {error: ...} (the fetch or res.json() failed inside the page)
\*   array        a JSON array (not a dict, so not kept)
\*   falsy_error an object whose error field is null, false, 0 or ""
\*   scalar       a JSON number, string, boolean or null
FetchOutcomes == {"object", "error_object", "array", "falsy_error", "scalar"}

\* network_capture.native_browser_fetch, line 205: the answer is kept
Kept(res) == res \in {"object", "falsy_error"}

\* Layer4 without the  return  in front of save_data
Layer4_NoReturn ==
    /\ pipeline = "main" /\ pc = "L4"
    /\ IF failed_api_endpoints # <<>>
       THEN /\ invoked' = Append(invoked, "layer4_native_fetch")
            /\ \/ /\ UNCHANGED <<browser_sessions, accepted>>
                  /\ Continue("L5")
               \/ /\ browser_sessions' = browser_sessions + 1
                  /\ \E unique_eps \in UniqueEndpointChoices(failed_api_endpoints) :
                     \E evaluated \in SUBSET unique_eps :
                     \E res \in [evaluated -> FetchOutcomes] :
                        LET kept == { e \in evaluated : Kept(res[e]) }
                        IN  IF kept # {}
                            THEN /\ accepted' = accepted \cup {"layer4_native_fetch"}
                                 /\ SaveAndGoOn("layer4_native_fetch", "L5")
                            ELSE /\ UNCHANGED accepted
                                 /\ Continue("L5")
       ELSE /\ UNCHANGED <<invoked, browser_sessions, accepted>>
            /\ Continue("L5")
    /\ UNCHANGED <<pipeline, settings, site, capture_result, data, failed_api_endpoints,
                   solver_calls>>
    /\ UNCHANGED <<llm_requests, notPipeline>>

\* LAYER 4 (main, lines 103-115).  native_browser_fetch launches a second
\* browser; a launch failure raises and is caught by main, a navigation or
\* evaluate failure is caught inside and keeps what was fetched before it.
Layer4 ==
    /\ pipeline = "main" /\ pc = "L4"
    /\ IF failed_api_endpoints # <<>>
       THEN /\ invoked' = Append(invoked, "layer4_native_fetch")
            /\ \/ /\ UNCHANGED <<browser_sessions, accepted>>
                  /\ Continue("L5")
               \/ /\ browser_sessions' = browser_sessions + 1
                  /\ \E unique_eps \in UniqueEndpointChoices(failed_api_endpoints) :
                     \E evaluated \in SUBSET unique_eps :
                     \E res \in [evaluated -> FetchOutcomes] :
                        LET kept == { e \in evaluated : Kept(res[e]) }
                        IN  IF kept # {}
                            THEN /\ accepted' = accepted \cup {"layer4_native_fetch"}
                                 /\ save_data("layer4_native_fetch")
                            ELSE /\ UNCHANGED accepted
                                 /\ Continue("L5")
       ELSE /\ UNCHANGED <<invoked, browser_sessions, accepted>>
            /\ Continue("L5")
    /\ UNCHANGED <<pipeline, settings, site, capture_result, data, failed_api_endpoints,
                   solver_calls>>
    /\ UNCHANGED <<llm_requests, notPipeline>>

\* requests.post to admin-ajax.php: 200 with a "{" in the text, any other answer, or an exception
AjaxOutcomes == {"ok_json", "other", "raise"}

\* LAYER 5 (main, lines 120-151): WordPress admin-ajax
Layer5 ==
    /\ pipeline = "main" /\ pc = "L5"
    /\ IF /\ capture_result.present /\ ~capture_result.html_content.empty
          /\ capture_result.html_content.wp = "wp_pid"
       THEN /\ invoked' = Append(invoked, "layer5_wp_ajax")
            /\ \E res1 \in AjaxOutcomes, res2 \in AjaxOutcomes :
                  IF res1 # "raise" /\ res2 # "raise" /\ (res1 = "ok_json" \/ res2 = "ok_json")
                  THEN /\ accepted' = accepted \cup {"layer5_wp_ajax"}
                       /\ save_data("layer5_wp_ajax")
                  ELSE /\ UNCHANGED accepted
                       /\ Continue("L5_5")
       ELSE /\ UNCHANGED <<invoked, accepted>>
            /\ Continue("L5_5")
    /\ UNCHANGED <<pipeline, settings, site, capture_result, data, failed_api_endpoints,
                   browser_sessions, solver_calls>>
    /\ UNCHANGED <<llm_requests, notPipeline>>

\* the answer of the LLM service, as ai_llm_extract sees it
LlmOutcomes == {"array", "empty_array", "not_json", "http_error", "exception"}

\* LlmRequestSent without the test of the API key
LlmRequestSent_AnyKey(cfg, html) ==
    /\ cfg.USE_LLM_PARSER
    /\ ~html.empty
    /\ html.longText

\* analysis.ai_llm_extract, lines 77-97: TRUE when a request is sent to the service
LlmRequestSent(cfg, html) ==
    /\ cfg.USE_LLM_PARSER /\ cfg.OPENROUTER_API_KEY # ""
    /\ ~html.empty
    /\ html.longText

\* LAYER 5.5 (main, lines 156-162)
Layer5_5 ==
    /\ pipeline = "main" /\ pc = "L5_5"
    /\ IF /\ capture_result.present /\ ~capture_result.html_content.empty
          /\ settings.USE_LLM_PARSER
       THEN /\ invoked' = Append(invoked, "layer5_5_ai_llm")
            /\ IF LlmRequestSent(settings, capture_result.html_content)
               THEN /\ llm_requests' = llm_requests + 1
                    /\ \E answer \in LlmOutcomes :
                          IF answer = "array"
                          THEN /\ accepted' = accepted \cup {"layer5_5_ai_llm"}
                               /\ save_data("layer5_5_ai_llm")
                          ELSE /\ UNCHANGED accepted
                               /\ Continue("L6_decrypt")
               ELSE /\ UNCHANGED <<accepted, llm_requests>>
                    /\ Continue("L6_decrypt")
       ELSE /\ UNCHANGED <<invoked, accepted, llm_requests>>
            /\ Continue("L6_decrypt")
    /\ UNCHANGED <<pipeline, settings, site, capture_result, data, failed_api_endpoints,
                   browser_sessions, solver_calls>>
    /\ UNCHANGED notPipeline

\* Layer6Decrypt that drops what try_decrypt returns
Layer6Decrypt_Drop ==
    /\ pipeline = "main" /\ pc = "L6_decrypt"
    /\ IF capture_result.present /\ is_encrypted(capture_result)
       THEN invoked' = Append(invoked, "layer6_decrypted")
       ELSE UNCHANGED invoked
    /\ UNCHANGED accepted
    /\ Continue("L6_unlocker")
    /\ UNCHANGED <<pipeline, settings, site, capture_result, data, failed_api_endpoints,
                   browser_sessions, solver_calls>>
    /\ UNCHANGED <<llm_requests, notPipeline>>

\* Layer6Decrypt that treats a failed decryption as the final blocking error
Layer6Decrypt_Blocking ==
    /\ pipeline = "main" /\ pc = "L6_decrypt"
    /\ IF capture_result.present /\ is_encrypted(capture_result)
       THEN /\ invoked' = Append(invoked, "layer6_decrypted")
            /\ IF try_decrypt(capture_result) # {}
               THEN /\ accepted' = accepted \cup {"layer6_decrypted"}
                    /\ save_data("layer6_decrypted")
               ELSE /\ UNCHANGED accepted
                    /\ result' = [status |-> "nodata", method |-> "", value |-> "None"]
                    /\ pc' = "done"
                    /\ UNCHANGED <<files, save_calls>>
       ELSE /\ UNCHANGED <<invoked, accepted>>
            /\ Continue("L6_unlocker")
    /\ UNCHANGED <<pipeline, settings, site, capture_result, data, failed_api_endpoints,
                   browser_sessions, solver_calls>>
    /\ UNCHANGED <<llm_requests, notPipeline>>

\* LAYER 6, first half (main, lines 167-175): encryption check and basic decryption
Layer6Decrypt ==
    /\ pipeline = "main" /\ pc = "L6_decrypt"
    /\ IF capture_result.present /\ is_encrypted(capture_result)
       THEN /\ invoked' = Append(invoked, "layer6_decrypted")
            /\ IF try_decrypt(capture_result) # {}
               THEN /\ accepted' = accepted \cup {"layer6_decrypted"}
                    /\ save_data("layer6_decrypted")
               ELSE /\ UNCHANGED accepted
                    /\ Continue("L6_unlocker")
       ELSE /\ UNCHANGED <<invoked, accepted>>
            /\ Continue("L6_unlocker")
    /\ UNCHANGED <<pipeline, settings, site, capture_result, data, failed_api_endpoints,
                   browser_sessions, solver_calls>>
    /\ UNCHANGED <<llm_requests, notPipeline>>

\* the answer of the unlocker service: a non-empty JSON value, an empty JSON
\* value, a non-JSON page, a non-200 status, or an exception
UnlockerOutcomes == {"json", "empty_json", "html", "status_error", "exception"}

\* fallback.use_web_unlocker, lines 35-41: TRUE when a request is sent to the service
UnlockerRequestSent(cfg) ==
    /\ cfg.USE_WEB_UNLOCKER
    /\ cfg.WEB_UNLOCKER_API_KEY # "" /\ cfg.WEB_UNLOCKER_API_KEY # "your_key_here"

\* LAYER 6, second half (main, lines 177-190): the external unlocker, then the no-data result
Layer6Unlocker ==
    /\ pipeline = "main" /\ pc = "L6_unlocker"
    /\ LET NoData == /\ result' = [status |-> "nodata", method |-> "", value |-> "None"]
                     /\ pc' = "done"
                     /\ UNCHANGED <<files, save_calls, accepted>>
       IN  IF settings.USE_WEB_UNLOCKER
           THEN /\ invoked' = Append(invoked, "layer6_fallback_unlocker")
                /\ IF UnlockerRequestSent(settings)
                   THEN \E answer \in UnlockerOutcomes :
                           IF answer \in {"json", "html"}
                           THEN /\ accepted' = accepted \cup {"layer6_fallback_unlocker"}
                                /\ save_data("layer6_fallback_unlocker")
                           ELSE NoData
                   ELSE NoData
           ELSE /\ UNCHANGED invoked
                /\ NoData
    /\ UNCHANGED <<pipeline, settings, site, capture_result, data, failed_api_endpoints,
                   browser_sessions, solver_calls>>
    /\ UNCHANGED <<llm_requests, notPipeline>>

(* ------------------------------------------------ menu._scrape_single_url *)
\* menu.technique_ssr_parser: the parsed SSR state ("json") or None ("none")
technique_ssr_parser(s) ==
    IF s.plain = "error" THEN "none"
    ELSE IF s.ssr \in {"next", "nuxt"} THEN "json"
    ELSE "none"

\* menu.technique_direct_request: TRUE when the static HTML yields tables
technique_direct_request(s) == s.plain # "error" /\ s.tables

\* the menu run ends with an uncaught exception
MenuRaise(what) ==
    /\ result' = [status |-> "raised", method |-> "", value |-> what]
    /\ pc' = "done"
    /\ UNCHANGED <<files, save_calls>>

\* the menu run found data with the technique and goes on to write it
MenuFound(technique) ==
    /\ accepted' = accepted \cup {technique}
    /\ result' = [status |-> "running", method |-> technique, value |-> ""]
    /\ pc' = "M_save"
    /\ UNCHANGED <<files, save_calls>>

\* step 1 (menu, lines 431-437)
MenuSsr ==
    /\ pipeline = "menu" /\ pc = "M_ssr"
    /\ invoked' = Append(invoked, "ssr_parser")
    /\ IF technique_ssr_parser(site) = "json"
       THEN MenuFound("ssr_parser")
       ELSE Continue("M_direct") /\ UNCHANGED accepted
    /\ UNCHANGED <<pipeline, settings, site, capture_result, data, failed_api_endpoints,
                   browser_sessions, solver_calls>>
    /\ UNCHANGED <<llm_requests, notPipeline>>

\* step 2 (menu, lines 438-449)
MenuDirect ==
    /\ pipeline = "menu" /\ pc = "M_direct"
    /\ invoked' = Append(invoked, "direct_request")
    /\ IF technique_direct_request(site)
       THEN MenuFound("direct_request")
       ELSE Continue("M_capture") /\ UNCHANGED accepted
    /\ UNCHANGED <<pipeline, settings, site, capture_result, data, failed_api_endpoints,
                   browser_sessions, solver_calls>>
    /\ UNCHANGED <<llm_requests, notPipeline>>

\* step 3 (menu, lines 450-468): technique_network_capture returns the captured
\* JSON responses and SSR state, or raises (launch, navigation or evaluate error)
MenuCapture ==
    /\ pipeline = "menu" /\ pc = "M_capture"
    /\ invoked' = Append(invoked, "network_capture")
    /\ \/ /\ UNCHANGED <<browser_sessions, accepted>>
          /\ MenuRaise("launch")
       \/ /\ browser_sessions' = browser_sessions + 1
          /\ \E outcome \in {"captured", "nothing", "raise"} :
                CASE outcome = "captured" -> MenuFound("network_capture")
                  [] outcome = "nothing" -> Continue("M_dom") /\ UNCHANGED accepted
                  [] outcome = "raise" -> MenuRaise("capture") /\ UNCHANGED accepted
    /\ UNCHANGED <<pipeline, settings, site, capture_result, data, failed_api_endpoints,
                   solver_calls>>
    /\ UNCHANGED <<llm_requests, notPipeline>>

\* step 4 (menu, lines 469-486): technique_dom_extraction, then the no-data return
MenuDom ==
    /\ pipeline = "menu" /\ pc = "M_dom"
    /\ invoked' = Append(invoked, "dom_extraction")
    /\ \/ /\ UNCHANGED <<browser_sessions, accepted>>
          /\ MenuRaise("launch")
       \/ /\ browser_sessions' = browser_sessions + 1
          /\ \E outcome \in {"found", "nothing", "raise"} :
                CASE outcome = "found" -> MenuFound("dom_extraction")
                  [] outcome = "nothing" ->
                        /\ result' = [status |-> "nodata", method |-> "", value |-> "None"]
                        /\ pc' = "done"
                        /\ UNCHANGED <<files, save_calls, accepted>>
                  [] outcome = "raise" -> MenuRaise("dom") /\ UNCHANGED accepted
    /\ UNCHANGED <<pipeline, settings, site, capture_result, data, failed_api_endpoints,
                   solver_calls>>
    /\ UNCHANGED <<llm_requests, notPipeline>>

\* the write at the end (menu, lines 489-499); an I/O error is not caught
MenuSave ==
    /\ pipeline = "menu" /\ pc = "M_save"
    /\ \E w \in WriteOutcomes :
          /\ files' = (IF w = "open_failed" THEN files
                       ELSE Append(files, [method |-> result.method, complete |-> (w = "ok")]))
          /\ result' = (IF w = "ok"
                        THEN [status |-> "returned", method |-> result.method, value |-> "None"]
                        ELSE [status |-> "raised", method |-> result.method, value |-> "OSError"])
          /\ pc' = "done"
    /\ UNCHANGED <<pipeline, settings, site, capture_result, data, failed_api_endpoints,
                   invoked, accepted, browser_sessions, solver_calls, save_calls>>
    /\ UNCHANGED <<llm_requests, notPipeline>>

Next ==
    \/ Layer1
    \/ Layer2Capture
    \/ CheckingCaptcha
    \/ Layer2FindJson
    \/ Layer3
    \/ Layer2Eval
    \/ Layer4
    \/ Layer5
    \/ Layer5_5
    \/ Layer6Decrypt
    \/ Layer6Unlocker
    \/ MenuSsr
    \/ MenuDirect
    \/ MenuCapture
    \/ MenuDom
    \/ MenuSave

Spec == Init /\ [][Next]_vars

(* ------------------------------------------------------- result files *)
\* the domains, techniques and title slugs of the modelled runs
Domains == {"a_com", "b_org"}
Techniques == {"layer2_network_capture", "layer3_smart_dom"}
Slugs == {"film-1", "film-2"}

\* a file name without a timestamp in it
NoStamp == -1

\* main.save_data, line 207:  hasil_scrape/{domain}_{method}_{int(time.time())}.json
save_data_filename(domain, method, now) == [stem |-> <<domain, method>>, ts |-> now]

\* scrape_zeldaeternity.quick_scrape, line 527:  zelda_{slug}.json
quick_scrape_path(slug) == [stem |-> <<"zelda", slug>>, ts |-> NoStamp]

\* open(name, 'w') and json.dump by the given run: the file is created, or
\* truncated and rewritten when it exists
WriteFile(name, run) ==
    disk' = { f \in disk : f.name # name } \cup { [name |-> name, run |-> run] }

\* the wall clock moves on to the next second
Tick ==
    /\ clock < MaxClock
    /\ clock' = clock + 1
    /\ UNCHANGED <<disk, store_runs, notStore>>

\* a run of main.main that ends in save_data, whose write succeeds
SaveDataRun ==
    /\ store_runs < MaxRuns
    /\ \E domain \in Domains, method \in Techniques :
          WriteFile(save_data_filename(domain, method, clock), store_runs + 1)
    /\ store_runs' = store_runs + 1
    /\ UNCHANGED <<clock, notStore>>

\* a run of scrape_zeldaeternity.quick_scrape for one title
QuickScrapeRun ==
    /\ store_runs < MaxRuns
    /\ \E slug \in Slugs : WriteFile(quick_scrape_path(slug), store_runs + 1)
    /\ store_runs' = store_runs + 1
    /\ UNCHANGED <<clock, notStore>>

StoreInit == PipelineIdle /\ StoreIdle /\ DomIdle /\ ApiIdle /\ PoolIdle /\ ScrapersIdle

StoreNext == Tick \/ SaveDataRun \/ QuickScrapeRun

StoreSpec == StoreInit /\ [][StoreNext]_vars

(* ------------------------------------------------ the DOM heuristic alone *)
\* n card-like elements of which the one at position gap (if any) has neither
\* a title nor a link
Cards(n, gap) == [i \in 1..n |-> i # gap]

\* pages with up to MaxPageCards card-like elements, with and without an iframe
DomPages ==
    { Page(FALSE, {}, Cards(n, gap), v, <<>>, <<>>, "none", TRUE) :
          n \in 0..MaxPageCards, gap \in {0, 1, DomCap + 1}, v \in BOOLEAN }
    \cup { EmptyPage }

\* the call smart_dom_extract(html_content)
DomExtract ==
    /\ ~dom_out.returned
    /\ dom_out' = [returned |-> TRUE, value |-> smart_dom_extract(dom_page)]
    /\ UNCHANGED <<dom_page, notDom>>

DomInit ==
    /\ PipelineIdle /\ StoreIdle /\ ApiIdle /\ PoolIdle /\ ScrapersIdle
    /\ dom_page \in DomPages
    /\ dom_out = [returned |-> FALSE, value |-> NoDom]

DomNext == DomExtract

DomSpec == DomInit /\ [][DomNext]_vars

(* ------------------------------------------------------------ api_server *)
\* seconds between two observations of the server's clock
TickSeconds == 150

ApiTick ==
    /\ api_now < MaxTicks * TickSeconds
    /\ api_now' = api_now + TickSeconds
    /\ UNCHANGED <<cache, data_files, refresh_status, handlers, jobs, scraper_starts, notApi>>

\* json.load of the newest file: it parses, or it raises (unreadable, cut short)
LoadOutcomes == {"ok", "raise"}

\* api_server.load_json_cached(pattern), called by a GET handler: a fresh
\* entry is returned as it is; otherwise the newest file is loaded and cached
load_json_cached(pattern) ==
    /\ IF cache[pattern].present /\ api_now - cache[pattern].ts < CACHE_TTL_SECONDS
       THEN UNCHANGED cache
       ELSE IF data_files[pattern] = 0
       THEN UNCHANGED cache
       ELSE \E outcome \in LoadOutcomes :
               IF outcome = "ok"
               THEN cache' = [cache EXCEPT ![pattern] =
                                 [present |-> TRUE, data |-> data_files[pattern], ts |-> api_now]]
               ELSE UNCHANGED cache
    /\ UNCHANGED <<api_now, data_files, refresh_status, handlers, jobs, scraper_starts, notApi>>

\* a GET endpoint reads one of the patterns
ApiRead == \E pattern \in Patterns : load_json_cached(pattern)

\* refresh_stocks, lines 488-492: the handler looks at is_running
RefreshCheck(r) ==
    /\ handlers[r].pc = "new"
    /\ handlers' = [handlers EXCEPT ![r] =
                       IF refresh_status.is_running
                       THEN [pc |-> "done", code |-> 409]
                       ELSE [pc |-> "start", code |-> 0]]
    /\ UNCHANGED <<api_now, cache, data_files, refresh_status, jobs, scraper_starts, notApi>>

\* refresh_stocks, lines 515-522: the handler starts the thread and answers 202
RefreshStart(r) ==
    /\ handlers[r].pc = "start"
    /\ jobs' = [jobs EXCEPT ![r] = "started"]
    /\ handlers' = [handlers EXCEPT ![r] = [pc |-> "done", code |-> 202]]
    /\ UNCHANGED <<api_now, cache, data_files, refresh_status, scraper_starts, notApi>>

\* run_scraper, lines 495-496: the thread marks the job as running
JobMark(r) ==
    /\ jobs[r] = "started"
    /\ refresh_status' = [refresh_status EXCEPT !.is_running = TRUE]
    /\ jobs' = [jobs EXCEPT ![r] = "marked"]
    /\ UNCHANGED <<api_now, cache, data_files, handlers, scraper_starts, notApi>>

\* run_scraper, line 498: subprocess.run starts the scraper
JobSpawn(r) ==
    /\ jobs[r] = "marked"
    /\ scraper_starts' = scraper_starts + 1
    /\ jobs' = [jobs EXCEPT ![r] = "spawned"]
    /\ UNCHANGED <<api_now, cache, data_files, refresh_status, handlers, notApi>>

\* how subprocess.run ends: the scraper exits with 0 (and has written a new
\* file), exits with another status, or subprocess.run raises (timeout)
ScraperOutcomes == {"exit0", "exit1", "raise"}

\* JobEnd without the  except  and  finally  blocks: an exception of
\* subprocess.run ends the thread at once
JobEnd_Unguarded(r) ==
    /\ jobs[r] = "spawned"
    /\ \E outcome \in ScraperOutcomes :
          IF outcome = "raise"
          THEN /\ jobs' = [jobs EXCEPT ![r] = "finished"]
               /\ UNCHANGED <<data_files, refresh_status, cache>>
          ELSE /\ data_files' = (IF outcome = "exit0"
                                 THEN [data_files EXCEPT ![STOCKS] = data_files[STOCKS] + 1]
                                 ELSE data_files)
               /\ refresh_status' = [refresh_status EXCEPT !.last_result =
                                        IF outcome = "exit0" THEN "returncode 0" ELSE "returncode 1"]
               /\ cache' = [p \in Patterns |-> NoEntry]
               /\ jobs' = [jobs EXCEPT ![r] = "ended"]
    /\ UNCHANGED <<api_now, handlers, scraper_starts, notApi>>

\* run_scraper, lines 498-511: subprocess.run returns and the result is
\* recorded and the cache cleared, or it raises and only the error is recorded
JobEnd(r) ==
    /\ jobs[r] = "spawned"
    /\ \E outcome \in ScraperOutcomes :
          /\ data_files' = (IF outcome = "exit0"
                            THEN [data_files EXCEPT ![STOCKS] = data_files[STOCKS] + 1]
                            ELSE data_files)
          /\ refresh_status' = [refresh_status EXCEPT !.last_result =
                                   CASE outcome = "exit0" -> "returncode 0"
                                     [] outcome = "exit1" -> "returncode 1"
                                     [] OTHER -> "error"]
          /\ cache' = (IF outcome = "raise" THEN cache ELSE [p \in Patterns |-> NoEntry])
    /\ jobs' = [jobs EXCEPT ![r] = "ended"]
    /\ UNCHANGED <<api_now, handlers, scraper_starts, notApi>>

\* run_scraper, line 513: finally
JobFinally(r) ==
    /\ jobs[r] = "ended"
    /\ refresh_status' = [refresh_status EXCEPT !.is_running = FALSE]
    /\ jobs' = [jobs EXCEPT ![r] = "finished"]
    /\ UNCHANGED <<api_now, cache, data_files, handlers, scraper_starts, notApi>>

\* the server has started; hasil_scrape/ holds some of the files already
ApiInit ==
    /\ PipelineIdle /\ StoreIdle /\ DomIdle /\ PoolIdle /\ ScrapersIdle
    /\ api_now = 0
    /\ cache = [p \in Patterns |-> NoEntry]
    /\ data_files \in [Patterns -> {0, 1}]
    /\ refresh_status = [is_running |-> FALSE, last_result |-> "None"]
    /\ handlers = [r \in Requests |-> [pc |-> "new", code |-> 0]]
    /\ jobs = [r \in Requests |-> "none"]
    /\ scraper_starts = 0

ApiNext ==
    \/ ApiTick
    \/ ApiRead
    \/ \E r \in Requests : RefreshCheck(r)
    \/ \E r \in Requests : RefreshStart(r)
    \/ \E r \in Requests : JobMark(r)
    \/ \E r \in Requests : JobSpawn(r)
    \/ \E r \in Requests : JobEnd(r)
    \/ \E r \in Requests : JobFinally(r)

ApiSpec == ApiInit /\ [][ApiNext]_vars

\* the steps of the thread of refresh job r
JobStep(r) == JobMark(r) \/ JobSpawn(r) \/ JobEnd(r) \/ JobFinally(r)

\* the refresh endpoint and its jobs alone: no GET handler runs and no time
\* passes on the cache's clock, neither of which a job looks at
RefreshNext ==
    \/ \E r \in Requests : RefreshCheck(r)
    \/ \E r \in Requests : RefreshStart(r)
    \/ \E r \in Requests : JobMark(r)
    \/ \E r \in Requests : JobSpawn(r)
    \/ \E r \in Requests : JobEnd(r)
    \/ \E r \in Requests : JobFinally(r)

\* a started thread keeps running, and subprocess.run returns or raises
\* within its timeout of 300 s
RefreshFairSpec ==
    /\ ApiInit /\ [][RefreshNext]_vars
    /\ \A r \in Requests : WF_vars(JobStep(r))

(* ------------------------------------------------------ pooled scrapes *)
PoolKinds == {"drakorkita", "custom_film", "zeldaeternity"}

\* the number of work items of the current pool: the titles of the listing,
\* or (episodes pool) the details gathered by the first pool
Total == IF stage = "details" THEN MaxItems ELSE Len(results)

\* the items a worker thread is busy with
Busy == { i \in Items : item[i].st \in {"fetching", "locked", "appended"} }

Queued == { i \in Items : item[i].st = "queued" }

\* how the fetch of a work item ends.  Detail pool: a detail record, no
\* detail (the SKIP branch; scrape_custom_film has none), or an exception.
\* Episodes pool: the episode embeds, or an exception.
FetchEnds ==
    IF stage = "episodes" THEN {"embeds", "raise"}
    ELSE IF pool_kind = "custom_film" THEN {"detail", "raise"}
    ELSE {"detail", "none", "raise"}

\* executor.submit, one work item at a time, before the  try  is entered
Submit ==
    /\ main_pc = "submit" /\ submitted < Total
    /\ submitted' = submitted + 1
    /\ item' = [item EXCEPT ![submitted + 1] = [st |-> "queued", out |-> ""]]
    /\ main_pc' = (IF submitted + 1 = Total THEN "wait" ELSE "submit")
    /\ UNCHANGED <<pool_kind, pool_episodes, stage, interrupted, lock, results, completed,
                   late_starts, output, notPool>>

\* Ctrl-C: KeyboardInterrupt is raised in the main thread.  Inside the  try
\* (as_completed) it is caught; while the items are still being submitted it
\* is not, and leaves the  with  block as an exception.
Interrupt ==
    /\ ~interrupted /\ main_pc \in {"submit", "wait"}
    /\ interrupted' = TRUE
    /\ main_pc' = (IF main_pc = "wait" THEN "handler" ELSE "unwind")
    /\ UNCHANGED <<pool_kind, pool_episodes, stage, submitted, item, lock, results, completed,
                   late_starts, output, notPool>>

\* the  except KeyboardInterrupt  block: executor.shutdown(wait=False,
\* cancel_futures=True) cancels the work items still in the queue
Shutdown ==
    /\ main_pc = "handler"
    /\ item' = [i \in Items |-> IF item[i].st = "queued"
                                THEN [st |-> "cancelled", out |-> ""] ELSE item[i]]
    /\ main_pc' = "exit"
    /\ UNCHANGED <<pool_kind, pool_episodes, stage, interrupted, submitted, lock, results,
                   completed, late_starts, output, notPool>>

\* the as_completed loop has seen every future complete
AllCompleted ==
    /\ main_pc = "wait"
    /\ \A i \in 1..Total : item[i].st = "finished"
    /\ main_pc' = "exit"
    /\ UNCHANGED <<pool_kind, pool_episodes, stage, interrupted, submitted, item, lock, results,
                   completed, late_starts, output, notPool>>

\* the end of the  with  block: shutdown(wait=True) joins the worker threads.
\* scrape_drakorkita then starts the episodes pool over the gathered details
\* when scrape_episodes is set; otherwise the output is written next.
ExitPool ==
    /\ main_pc = "exit"
    /\ Busy = {} /\ Queued = {}
    /\ IF stage = "details" /\ pool_kind = "drakorkita" /\ pool_episodes /\ results # <<>>
       THEN /\ stage' = "episodes"
            /\ item' = [i \in Items |-> NewItem]
            /\ submitted' = 0 /\ completed' = 0
            /\ main_pc' = "submit"
       ELSE /\ main_pc' = "write"
            /\ UNCHANGED <<stage, item, submitted, completed>>
    /\ UNCHANGED <<pool_kind, pool_episodes, interrupted, lock, results, late_starts, output,
                   notPool>>

\* the  with  block left by the KeyboardInterrupt: shutdown(wait=True) lets
\* the workers drain the queue, then the exception leaves the function
Unwind ==
    /\ main_pc = "unwind"
    /\ Busy = {} /\ Queued = {}
    /\ main_pc' = "aborted"
    /\ UNCHANGED <<pool_kind, pool_episodes, stage, interrupted, submitted, item, lock, results,
                   completed, late_starts, output, notPool>>

\* the output file is written from the results list (for scrape_drakorkita
\* after the verification rounds, which change no list membership)
WriteOutput ==
    /\ main_pc = "write"
    /\ output' = [written |-> TRUE, data |-> results]
    /\ main_pc' = "done"
    /\ UNCHANGED <<pool_kind, pool_episodes, stage, interrupted, submitted, item, lock, results,
                   completed, late_starts, notPool>>

\* a worker thread takes the next work item off the queue (first in, first out)
WorkerStart(i) ==
    /\ item[i].st = "queued"
    /\ \A j \in Queued : i <= j
    /\ Cardinality(Busy) < MaxWorkers
    /\ item' = [item EXCEPT ![i] = [st |-> "fetching", out |-> ""]]
    /\ late_starts' = (IF interrupted THEN late_starts \cup {i} ELSE late_starts)
    /\ UNCHANGED <<pool_kind, pool_episodes, stage, main_pc, interrupted, submitted, lock,
                   results, completed, output, notPool>>

\* WorkerLock that enters the bookkeeping without taking the lock
WorkerLock_NoMutex(i) ==
    /\ item[i].st = "fetching"
    /\ \E out \in FetchEnds : item' = [item EXCEPT ![i] = [st |-> "locked", out |-> out]]
    /\ UNCHANGED <<pool_kind, pool_episodes, stage, main_pc, interrupted, submitted, lock,
                   results, completed, late_starts, output, notPool>>

\* the fetch of the item has ended and the worker enters  with lock:
WorkerLock(i) ==
    /\ item[i].st = "fetching"
    /\ lock = 0
    /\ lock' = i
    /\ \E out \in FetchEnds : item' = [item EXCEPT ![i] = [st |-> "locked", out |-> out]]
    /\ UNCHANGED <<pool_kind, pool_episodes, stage, main_pc, interrupted, submitted, results,
                   completed, late_starts, output, notPool>>

\* details.append(detail) / all_results.append(detail), inside  with lock:
WorkerAppend(i) ==
    /\ item[i].st = "locked" /\ item[i].out = "detail"
    /\ results' = Append(results, i)
    /\ item' = [item EXCEPT ![i].st = "appended"]
    /\ UNCHANGED <<pool_kind, pool_episodes, stage, main_pc, interrupted, submitted, lock,
                   completed, late_starts, output, notPool>>

\* completed[0] += 1 and the log line, then the  with lock:  block is left
WorkerCount(i) ==
    /\ \/ item[i].st = "appended"
       \/ item[i].st = "locked" /\ item[i].out # "detail"
    /\ completed' = completed + 1
    /\ lock' = 0
    /\ item' = [item EXCEPT ![i].st = "finished"]
    /\ UNCHANGED <<pool_kind, pool_episodes, stage, main_pc, interrupted, submitted, results,
                   late_starts, output, notPool>>

\* the listing has been crawled and the pool is about to be filled
PoolInit ==
    /\ PipelineIdle /\ StoreIdle /\ DomIdle /\ ApiIdle /\ ScrapersIdle
    /\ pool_kind \in PoolKinds
    /\ pool_episodes \in (IF pool_kind = "drakorkita" THEN BOOLEAN ELSE {FALSE})
    /\ stage = "details"
    /\ main_pc = "submit" /\ interrupted = FALSE /\ submitted = 0
    /\ item = [i \in Items |-> NewItem] /\ lock = 0
    /\ results = <<>> /\ completed = 0 /\ late_starts = {}
    /\ output = [written |-> FALSE, data |-> <<>>]

PoolNext ==
    \/ Submit
    \/ Interrupt
    \/ Shutdown
    \/ AllCompleted
    \/ ExitPool
    \/ Unwind
    \/ WriteOutput
    \/ \E i \in Items : WorkerStart(i)
    \/ \E i \in Items : WorkerLock(i)
    \/ \E i \in Items : WorkerAppend(i)
    \/ \E i \in Items : WorkerCount(i)

PoolSpec == PoolInit /\ [][PoolNext]_vars

(* ============================== direct_request.try_common_endpoints *)
\* the URLs try_common_endpoints can build from base_url: the base itself
\* (suffix ""), and each suffix bare or with ?page=1
Url(suffix, page) == [suffix |-> suffix, page |-> page]
BaseUrl == Url("", FALSE)
ProbeUrls ==
    {BaseUrl} \cup { Url(COMMON_API_ENDPOINTS[k], pg) : k \in 1..Len(COMMON_API_ENDPOINTS), pg \in BOOLEAN }

\* what a GET of one URL can bring (direct_request.request):
\*   json        status 200, the body parses to a non-empty JSON value
\*   empty_json  status 200, the body parses to [] or {}
\*   not_json    status 200, response.json() raises ValueError
\*   failed      another status, or requests raised RequestException
Answers == {"json", "empty_json", "not_json", "failed"}

\* direct_request.request: the parsed JSON value (named by its URL), else None;
\* the declared content-type makes no difference to what is returned
Get(u) == IF server[u] \in {"json", "empty_json"} THEN [url |-> u, answer |-> server[u]] ELSE None

\* Truthy with an empty JSON value counted as data
Truthy_AnyJson(v) == v # None

\* Python truthiness of what request returned ( if data: )
Truthy(v) == v # None /\ v.answer = "json"

RECURSIVE SubsetsUpTo(_, _)
SubsetsUpTo(S, n) ==
    IF n = 0 THEN {{}}
    ELSE LET P == SubsetsUpTo(S, n - 1) IN P \cup { T \cup {x} : T \in P, x \in S }

\* the sites probed: at most MaxLive URLs answer with status 200
SampleServers ==
    { [u \in ProbeUrls |-> IF u \in DOMAIN f THEN f[u] ELSE "failed"] :
         f \in UNION { [L -> Answers \ {"failed"}] : L \in SubsetsUpTo(ProbeUrls, MaxLive) } }

Return(v) == probe' = [pc |-> "returned", k |-> probe.k, value |-> v]

\* lines 38-41: the base URL itself
ProbeBase ==
    /\ probe.pc = "base"
    /\ requested' = Append(requested, BaseUrl)
    /\ IF Truthy(Get(BaseUrl)) THEN Return(Get(BaseUrl))
       ELSE probe' = [probe EXCEPT !.pc = "bare", !.k = 1]
    /\ UNCHANGED <<server, notProbe>>

\* lines 43-50: the next suffix, bare
ProbeBare ==
    /\ probe.pc = "bare" /\ probe.k <= Len(COMMON_API_ENDPOINTS)
    /\ LET target_url == Url(COMMON_API_ENDPOINTS[probe.k], FALSE)
       IN  /\ requested' = Append(requested, target_url)
           /\ IF Truthy(Get(target_url)) THEN Return(Get(target_url))
              ELSE probe' = [probe EXCEPT !.pc = "page"]
    /\ UNCHANGED <<server, notProbe>>

\* lines 52-57: the same suffix with ?page=1
ProbePage ==
    /\ probe.pc = "page"
    /\ LET target_url_page == Url(COMMON_API_ENDPOINTS[probe.k], TRUE)
       IN  /\ requested' = Append(requested, target_url_page)
           /\ IF Truthy(Get(target_url_page)) THEN Return(Get(target_url_page))
              ELSE probe' = [probe EXCEPT !.pc = "bare", !.k = probe.k + 1]
    /\ UNCHANGED <<server, notProbe>>

\* lines 59-60: the list is exhausted
ProbeNone ==
    /\ probe.pc = "bare" /\ probe.k > Len(COMMON_API_ENDPOINTS)
    /\ Return(None)
    /\ UNCHANGED <<server, requested, notProbe>>

ProbeInit ==
    /\ CoreIdle /\ FetchIdle /\ NavIdle /\ RetryIdle /\ EpisodesIdle /\ RaceIdle
    /\ server \in SampleServers
    /\ requested = <<>>
    /\ probe = [pc |-> "base", k |-> 0, value |-> None]

ProbeNext == ProbeBase \/ ProbeBare \/ ProbePage \/ ProbeNone

ProbeSpec == ProbeInit /\ [][ProbeNext]_vars

(* ============================ network_capture.native_browser_fetch *)
\* lines 165-189: the browser is launched, or the launch raises out of the
\* function and main's  except Exception  (main.py:114) goes on to Layer 5
NativeLaunch ==
    /\ native.pc = "launch"
    /\ \/ native' = [native EXCEPT !.pc = "goto"]
       \/ native' = [pc |-> "done", layer4 |-> "next_layer"]
    /\ UNCHANGED <<api_endpoints, fetch_res, fetched_data, notFetch>>

\* lines 191-194: the main URL is opened; a failure is caught at line 211
NativeGoto ==
    /\ native.pc = "goto"
    /\ \/ native' = [native EXCEPT !.pc = "loop"]
       \/ native' = [native EXCEPT !.pc = "closed"]
    /\ UNCHANGED <<api_endpoints, fetch_res, fetched_data, notFetch>>

\* lines 196-209: the next endpoint is fetched inside the page; an answer is
\* kept under its endpoint when it is a dict without a truthy "error".  An
\* exception of page.evaluate ends the loop (line 211).
NativeEvaluate ==
    /\ native.pc = "loop" /\ Len(fetch_res) < Len(api_endpoints)
    /\ \/ \E res \in FetchOutcomes :
             /\ fetch_res' = Append(fetch_res, res)
             /\ fetched_data' = (IF Kept(res) THEN fetched_data \cup {api_endpoints[Len(fetch_res) + 1]}
                                 ELSE fetched_data)
             /\ UNCHANGED native
       \/ /\ native' = [native EXCEPT !.pc = "closed"]
          /\ UNCHANGED <<fetch_res, fetched_data>>
    /\ UNCHANGED <<api_endpoints, notFetch>>

\* lines 213-216: the loop is over, the browser is closed and fetched_data returned
NativeReturn ==
    /\ native.pc = "loop" /\ Len(fetch_res) = Len(api_endpoints)
    /\ native' = [native EXCEPT !.pc = "closed"]
    /\ UNCHANGED <<api_endpoints, fetch_res, fetched_data, notFetch>>

\* main, lines 110-112: a non-empty dict is saved as the run's result
Layer4Result ==
    /\ native.pc = "closed"
    /\ native' = [pc |-> "done",
                  layer4 |-> (IF fetched_data # {} THEN "layer4_native_fetch" ELSE "next_layer")]
    /\ UNCHANGED <<api_endpoints, fetch_res, fetched_data, notFetch>>

FetchInit ==
    /\ CoreIdle /\ ProbeIdle /\ NavIdle /\ RetryIdle /\ EpisodesIdle /\ RaceIdle
    /\ \E n \in 1..MaxEndpoints : api_endpoints = [i \in 1..n |-> i]
    /\ fetch_res = <<>> /\ fetched_data = {}
    /\ native = [pc |-> "launch", layer4 |-> ""]

FetchNext == NativeLaunch \/ NativeGoto \/ NativeEvaluate \/ NativeReturn \/ Layer4Result

FetchSpec == FetchInit /\ [][FetchNext]_vars

(* ======== network_capture.capture and menu.technique_network_capture *)
Adapters == {"capture", "technique_network_capture"}

\* what page.goto does: it returns, raises playwright's TimeoutError, or
\* raises another playwright Error (DNS failure, refused connection, ...)
GotoOutcomes == {"ok", "timeout", "error"}

\* the listeners registered with page.on record a response or a WebSocket
\* frame while the page is open (network_capture.py:103-132, menu.py:206-217)
NavRecord ==
    /\ nav.pc \in {"goto", "fallback", "content"} /\ recorded < MaxRecorded
    /\ recorded' = recorded + 1
    /\ UNCHANGED <<adapter, nav, loaded, nav_result, notNav>>

\* page.goto(url, wait_until="networkidle").  A timeout leaves a document in
\* the page or not; another error leaves none.
\*   capture (network_capture.py:134-152): every exception is caught and logged,
\*     the rest of the try block (page.content()) is skipped
\*   technique_network_capture (menu.py:237-243): only PWTimeout is caught
NavGoto ==
    /\ nav.pc = "goto"
    /\ \E o \in GotoOutcomes :
          /\ loaded' \in (IF o = "ok" THEN {TRUE} ELSE IF o = "timeout" THEN BOOLEAN ELSE {FALSE})
          /\ IF o = "ok"
             THEN /\ nav' = [pc |-> "content", waits |-> <<"networkidle">>, outcomes |-> <<o>>]
                  /\ UNCHANGED nav_result
             ELSE IF adapter = "capture"
             THEN /\ nav' = [pc |-> "close", waits |-> <<"networkidle">>, outcomes |-> <<o>>]
                  /\ UNCHANGED nav_result
             ELSE IF o = "timeout"
             THEN /\ nav' = [pc |-> "fallback", waits |-> <<"networkidle">>, outcomes |-> <<o>>]
                  /\ UNCHANGED nav_result
             ELSE /\ nav' = [pc |-> "done", waits |-> <<"networkidle">>, outcomes |-> <<o>>]
                  /\ nav_result' = [status |-> "raised", html |-> FALSE, responses |-> 0]
    /\ UNCHANGED <<adapter, recorded, notNav>>

\* menu.py:240-243: the second goto, wait_until="domcontentloaded"; whatever it raises is dropped
NavFallback ==
    /\ adapter = "technique_network_capture" /\ nav.pc = "fallback"
    /\ \E o \in GotoOutcomes :
          /\ loaded' \in (IF o = "ok" THEN {TRUE} ELSE IF o = "timeout" THEN {loaded, TRUE} ELSE {loaded})
          /\ nav' = [pc |-> "content", waits |-> Append(nav.waits, "domcontentloaded"),
                     outcomes |-> Append(nav.outcomes, o)]
    /\ UNCHANGED <<adapter, recorded, nav_result, notNav>>

\* capture: result.html_content = page.content() (network_capture.py:142);
\* technique_network_capture reads the SSR state instead and keeps no HTML (menu.py:245-265)
NavContent ==
    /\ nav.pc = "content"
    /\ nav' = [nav EXCEPT !.pc = "close"]
    /\ nav_result' = [nav_result EXCEPT !.html = (adapter = "capture" /\ loaded)]
    /\ UNCHANGED <<adapter, loaded, recorded, notNav>>

\* browser.close() and  return result  (network_capture.py:151-158, menu.py:267-274)
NavReturn ==
    /\ nav.pc = "close"
    /\ nav' = [nav EXCEPT !.pc = "done"]
    /\ nav_result' = [nav_result EXCEPT !.status = "returned", !.responses = recorded]
    /\ UNCHANGED <<adapter, loaded, recorded, notNav>>

NavInit ==
    /\ CoreIdle /\ ProbeIdle /\ FetchIdle /\ RetryIdle /\ EpisodesIdle /\ RaceIdle
    /\ adapter \in Adapters
    /\ nav = [pc |-> "goto", waits |-> <<>>, outcomes |-> <<>>]
    /\ loaded = FALSE /\ recorded = 0 /\ nav_result = NavRunning

NavNext == NavRecord \/ NavGoto \/ NavFallback \/ NavContent \/ NavReturn

NavSpec == NavInit /\ [][NavNext]_vars

(* ===== scrape_custom_film._get_html and scrape_drakorkita.scrape_detail *)
\* the work items and the fetch each makes
\*   _get_html(url)             listing and episode pages (scrape_custom_film.py:143, 336, 689)
\*   _get_html(url, retries=5)  the detail page (scrape_custom_film.py:443)
\*   scrape_detail(url)         called up to three times by _scrape_detail_worker
\*                              (scrape_drakorkita.py:832-837)
Fetchers ==
    { [fn |-> "_get_html", base |-> 15, retries |-> 3, calls |-> 1],
      [fn |-> "_get_html", base |-> 15, retries |-> 5, calls |-> 1],
      [fn |-> "scrape_detail", base |-> 20, retries |-> 5, calls |-> 3] }

\* timeout = 15 + (attempt * 10)  /  timeout = 20 + (_attempt * 10)
Timeout(base, attempt) == base + attempt * 10

\* GiveUp with one attempt more than the loop has
GiveUp_OneMore(attempt, retries) == attempt >= retries

\* the failed attempt was the last of the loop ( attempt < retries - 1  is false)
GiveUp(attempt, retries) == attempt >= retries - 1

\* SESSION.get + raise_for_status: the page, or an exception
GetOutcomes == {"ok", "timeout", "http_error", "connection_error"}

\* one pass of the attempt loop: the request is made with the attempt's
\* timeout; success returns the page, a failure sleeps and goes on, and a
\* failure of the last attempt returns None
SessionGet ==
    /\ fetching.pc = "get"
    /\ \E o \in GetOutcomes :
          /\ attempts' = Append(attempts, [timeout |-> Timeout(fetcher.base, fetching.attempt),
                                          ok |-> (o = "ok")])
          /\ IF o = "ok"
             THEN fetching' = [fetching EXCEPT !.pc = "returned", !.value = "page"]
             ELSE IF GiveUp(fetching.attempt, fetcher.retries)
             THEN fetching' = [fetching EXCEPT !.pc = "returned", !.value = "None", !.last_error = o]
             ELSE fetching' = [fetching EXCEPT !.pc = "sleep", !.last_error = o]
    /\ UNCHANGED <<fetcher, notRetry>>

\* time.sleep(2) / time.sleep(3) between two attempts
SleepAndRetry ==
    /\ fetching.pc = "sleep"
    /\ fetching' = [fetching EXCEPT !.pc = "get", !.attempt = fetching.attempt + 1]
    /\ UNCHANGED <<fetcher, attempts, notRetry>>

\* _scrape_detail_worker, lines 832-837: scrape_detail returned None and the
\* worker calls it again after time.sleep(3)
WorkerRetry ==
    /\ fetching.pc = "returned" /\ fetching.value = "None"
    /\ fetching.retry < fetcher.calls - 1
    /\ fetching' = [fetching EXCEPT !.pc = "get", !.attempt = 0, !.retry = fetching.retry + 1]
    /\ UNCHANGED <<fetcher, attempts, notRetry>>

\* the caller takes the result: the page is parsed, or the work item is
\* skipped / left empty (scrape_drakorkita.py:839-843, scrape_custom_film.py:444-445)
TakeResult ==
    /\ fetching.pc = "returned"
    /\ fetching.value = "page" \/ fetching.retry >= fetcher.calls - 1
    /\ fetching' = [fetching EXCEPT !.pc = "done"]
    /\ UNCHANGED <<fetcher, attempts, notRetry>>

RetryInit ==
    /\ CoreIdle /\ ProbeIdle /\ FetchIdle /\ NavIdle /\ EpisodesIdle /\ RaceIdle
    /\ fetcher \in Fetchers
    /\ attempts = <<>>
    /\ fetching = [pc |-> "get", attempt |-> 0, retry |-> 0, last_error |-> "", value |-> "None"]

RetryNext == SessionGet \/ SleepAndRetry \/ WorkerRetry \/ TakeResult

RetrySpec == RetryInit /\ [][RetryNext]_vars

(* ======== scrape_custom_film._scrape_episodes_with_verification *)
\* max_retries: int = 5
DefaultMaxRetries == 5

\* the input episode at position i
Episode(i) == [label |-> <<"Episode", i>>, url |-> <<"/episode", i>>]

\* the indices whose slot has no video embed ( not results[i].get("video_embed") )
Missing(res) == { i \in 1..Len(res) : res[i].video_embed = NoEmbed }

\* what a worker of an AJAX round brings: _scrape_episode_video found an
\* embed, found none, or raised
WorkerOutcomes == {"embed", "empty", "raise"}

\* what extract_iframe_from_page brings: a non-empty list of iframes, an empty list, or an exception
BrowserOutcomes == {"iframes", "none", "raise"}

Log(kind, tried) == rounds' = Append(rounds, [kind |-> kind, tried |-> tried,
                              empty |-> { i \in 1..Len(episodes) :
                                            ep_results = <<>> \/ ep_results[i].video_embed \in {NoEmbed, NoSlot.video_embed} }])

\* lines 792-800: results = [None] * len(episodes) and every episode is submitted to the first pool
Round1Submit ==
    /\ ep.pc = "start"
    /\ ep_results' = [i \in 1..Len(episodes) |-> NoSlot]
    /\ ep' = [ep EXCEPT !.pc = "round1", !.pending = 1..Len(episodes)]
    /\ Log("ajax", 1..Len(episodes))
    /\ UNCHANGED <<episodes, max_retries, notEpisodes>>

\* Round1Collect that stores the entries in the order of completion
Round1Collect_CompletionOrder(i) ==
    /\ ep.pc = "round1" /\ i \in ep.pending
    /\ \E o \in WorkerOutcomes :
          LET slot == Len(episodes) - Cardinality(ep.pending) + 1
          IN  IF o = "raise"
              THEN /\ UNCHANGED ep_results
                   /\ ep' = [ep EXCEPT !.pending = ep.pending \ {i}, !.order = Append(ep.order, i),
                                        !.raised = ep.raised \cup {i}]
              ELSE /\ ep_results' = [ep_results EXCEPT ![slot] =
                          [label |-> episodes[i].label, url |-> episodes[i].url,
                           video_embed |-> (IF o = "embed" THEN Embed("ajax", 1) ELSE NoEmbed)]]
                   /\ ep' = [ep EXCEPT !.pending = ep.pending \ {i}, !.order = Append(ep.order, i)]
    /\ UNCHANGED <<episodes, max_retries, rounds, notEpisodes>>

\* lines 801-812: the next completed future of round 1, in whatever order the
\* workers finish; its entry goes to the slot of its own index, and the
\* exception of a worker is logged and leaves the slot None
Round1Collect(i) ==
    /\ ep.pc = "round1" /\ i \in ep.pending
    /\ \E o \in WorkerOutcomes :
          IF o = "raise"
          THEN /\ UNCHANGED ep_results
               /\ ep' = [ep EXCEPT !.pending = ep.pending \ {i}, !.order = Append(ep.order, i),
                                    !.raised = ep.raised \cup {i}]
          ELSE /\ ep_results' = [ep_results EXCEPT ![i] =
                      [label |-> episodes[i].label, url |-> episodes[i].url,
                       video_embed |-> (IF o = "embed" THEN Embed("ajax", 1) ELSE NoEmbed)]]
               /\ ep' = [ep EXCEPT !.pending = ep.pending \ {i}, !.order = Append(ep.order, i)]
    /\ UNCHANGED <<episodes, max_retries, rounds, notEpisodes>>

\* lines 814-823 and 829: the pool is left, every slot still None gets an
\* empty entry, and the episodes without embed are listed
Round1Fill ==
    /\ ep.pc = "round1" /\ ep.pending = {}
    /\ LET filled == [i \in 1..Len(episodes) |->
                        IF ep_results[i] = NoSlot
                        THEN [label |-> episodes[i].label, url |-> episodes[i].url, video_embed |-> NoEmbed]
                        ELSE ep_results[i]]
       IN  /\ ep_results' = filled
           /\ ep' = [ep EXCEPT !.pc = "round2", !.missing = Missing(filled)]
    /\ UNCHANGED <<episodes, max_retries, rounds, notEpisodes>>

\* Round2Submit that retries every episode, not only the missing ones
Round2Submit_All ==
    /\ ep.pc = "round2" /\ ep.pending = {}
    /\ IF ep.missing # {}
       THEN /\ ep' = [ep EXCEPT !.pc = "round2_wait", !.pending = 1..Len(episodes)]
            /\ Log("ajax_retry", 1..Len(episodes))
       ELSE /\ ep' = [ep EXCEPT !.pc = "browser"]
            /\ UNCHANGED rounds
    /\ UNCHANGED <<episodes, max_retries, ep_results, notEpisodes>>

\* lines 830-834: the AJAX retry round is started for the missing episodes, if any
Round2Submit ==
    /\ ep.pc = "round2" /\ ep.pending = {}
    /\ IF ep.missing # {}
       THEN /\ ep' = [ep EXCEPT !.pc = "round2_wait", !.pending = ep.missing]
            /\ Log("ajax_retry", ep.missing)
       ELSE /\ ep' = [ep EXCEPT !.pc = "browser"]
            /\ UNCHANGED rounds
    /\ UNCHANGED <<episodes, max_retries, ep_results, notEpisodes>>

\* lines 835-843: the next completed future of round 2; only a found embed is stored
Round2Collect(i) ==
    /\ ep.pc = "round2_wait" /\ i \in ep.pending
    /\ \E o \in WorkerOutcomes :
          ep_results' = (IF o = "embed"
                         THEN [ep_results EXCEPT ![i].video_embed = Embed("ajax_retry", 1)]
                         ELSE ep_results)
    /\ ep' = [ep EXCEPT !.pending = ep.pending \ {i}]
    /\ UNCHANGED <<episodes, max_retries, rounds, notEpisodes>>

\* line 834: the with block of round 2 is left when all its workers are done
Round2End ==
    /\ ep.pc = "round2_wait" /\ ep.pending = {}
    /\ ep' = [ep EXCEPT !.pc = "browser"]
    /\ UNCHANGED <<episodes, max_retries, ep_results, rounds, notEpisodes>>

\* lines 849-854: the still-missing episodes are listed and, if there are any
\* and max_retries allows a round, the first browser round begins
BrowserStart ==
    /\ ep.pc = "browser"
    /\ LET missing == Missing(ep_results)
       IN  IF missing # {} /\ max_retries >= 1
           THEN /\ ep' = [ep EXCEPT !.pc = "browser_round", !.missing = missing, !.pending = missing,
                                    !.still_missing = {}, !.retry_round = 1]
                /\ Log("browser", missing)
           ELSE /\ ep' = [ep EXCEPT !.pc = "report", !.missing = missing]
                /\ UNCHANGED rounds
    /\ UNCHANGED <<episodes, max_retries, ep_results, notEpisodes>>

\* lines 855-864: the next missing episode of the round is opened in the browser, one after the other
BrowserVisit ==
    /\ ep.pc = "browser_round" /\ ep.pending # {}
    /\ LET i == CHOOSE j \in ep.pending : \A k \in ep.pending : j <= k
       IN  \E o \in BrowserOutcomes :
              IF o = "iframes"
              THEN /\ ep_results' = [ep_results EXCEPT ![i].video_embed = Embed("pw", ep.retry_round)]
                   /\ ep' = [ep EXCEPT !.pending = ep.pending \ {i}]
              ELSE /\ UNCHANGED ep_results
                   /\ ep' = [ep EXCEPT !.pending = ep.pending \ {i},
                                        !.still_missing = ep.still_missing \cup {i}]
    /\ UNCHANGED <<episodes, max_retries, rounds, notEpisodes>>

\* lines 866-874: the round is over: done when nothing is missing or the
\* rounds are used up, else the next round takes the still-missing episodes
BrowserRoundEnd ==
    /\ ep.pc = "browser_round" /\ ep.pending = {}
    /\ IF ep.still_missing = {}
       THEN /\ ep' = [ep EXCEPT !.pc = "report"]
            /\ UNCHANGED rounds
       ELSE IF ep.retry_round < max_retries
       THEN /\ ep' = [ep EXCEPT !.missing = ep.still_missing, !.pending = ep.still_missing,
                                !.still_missing = {}, !.retry_round = ep.retry_round + 1]
            /\ Log("browser", ep.still_missing)
       ELSE /\ ep' = [ep EXCEPT !.pc = "report", !.missing = ep.still_missing]
            /\ UNCHANGED rounds
    /\ UNCHANGED <<episodes, max_retries, ep_results, notEpisodes>>

\* lines 876-884: the final report and  return results
ReturnResults ==
    /\ ep.pc = "report"
    /\ ep' = [ep EXCEPT !.pc = "returned"]
    /\ UNCHANGED <<episodes, max_retries, ep_results, rounds, notEpisodes>>

EpisodesInit ==
    /\ CoreIdle /\ ProbeIdle /\ FetchIdle /\ NavIdle /\ RetryIdle /\ RaceIdle
    /\ \E n \in 1..MaxEpisodes : episodes = [i \in 1..n |-> Episode(i)]
    /\ max_retries \in (0..MaxBrowserRounds) \cup {DefaultMaxRetries}
    /\ ep_results = <<>> /\ rounds = <<>>
    /\ ep = [pc |-> "start", pending |-> {}, missing |-> {}, still_missing |-> {},
             retry_round |-> 0, order |-> <<>>, raised |-> {}]

EpisodesNext ==
    \/ Round1Submit
    \/ \E i \in 1..Len(episodes) : Round1Collect(i)
    \/ Round1Fill
    \/ Round2Submit
    \/ \E i \in 1..Len(episodes) : Round2Collect(i)
    \/ Round2End
    \/ BrowserStart
    \/ BrowserVisit
    \/ BrowserRoundEnd
    \/ ReturnResults

EpisodesSpec == EpisodesInit /\ [][EpisodesNext]_vars

\* every fetch of a worker and every browser visit ends (each request and each
\* navigation has a timeout), so the call keeps taking steps
EpisodesFairSpec == EpisodesSpec /\ WF_vars(EpisodesNext)

(* ============ api_server.load_json_cached next to the refresh thread *)
Calls == 1..MaxCalls

\* the value load_json_cached returns for None
NoData == 0

RaceTick ==
    /\ race_now < MaxTicks * TickSeconds
    /\ race_now' = race_now + TickSeconds
    /\ UNCHANGED <<newest_file, cache_entry, calls, refresher, notRace>>

\* lines 68-78: the call takes the time, returns a fresh entry at once, and
\* otherwise opens the newest file and parses it
LoadBegin(c) ==
    /\ calls[c].pc = "idle"
    /\ LET call == [NoCall EXCEPT !.now = race_now, !.after_clear = (refresher = "cleared")]
       IN  IF cache_entry.present /\ race_now - cache_entry.ts < CACHE_TTL_SECONDS
           THEN calls' = [calls EXCEPT ![c] = [call EXCEPT !.pc = "done", !.ret = cache_entry.data]]
           ELSE IF newest_file = 0
           THEN calls' = [calls EXCEPT ![c] = [call EXCEPT !.pc = "done", !.ret = NoData]]
           ELSE \E outcome \in LoadOutcomes :
                   IF outcome = "ok"
                   THEN calls' = [calls EXCEPT ![c] = [call EXCEPT !.pc = "loaded", !.data = newest_file]]
                   ELSE calls' = [calls EXCEPT ![c] = [call EXCEPT !.pc = "done", !.ret = NoData]]
    /\ UNCHANGED <<race_now, newest_file, cache_entry, refresher, notRace>>

\* lines 80-82: _cache[pattern] = (data, now), with the time taken at the start of the call
LoadStore(c) ==
    /\ calls[c].pc = "loaded"
    /\ cache_entry' = [present |-> TRUE, data |-> calls[c].data, ts |-> calls[c].now]
    /\ calls' = [calls EXCEPT ![c].pc = "done", ![c].ret = calls[c].data]
    /\ UNCHANGED <<race_now, newest_file, refresher, notRace>>

\* the scraper subprocess writes its new file and exits (lines 498-501)
ScraperWrites ==
    /\ refresher = "running"
    /\ newest_file' = newest_file + 1
    /\ refresher' = "written"
    /\ UNCHANGED <<race_now, cache_entry, calls, notRace>>

\* line 508: _cache.clear()
CacheClear ==
    /\ refresher = "written"
    /\ cache_entry' = NoEntry
    /\ refresher' = "cleared"
    /\ UNCHANGED <<race_now, newest_file, calls, notRace>>

RaceInit ==
    /\ CoreIdle /\ ProbeIdle /\ FetchIdle /\ NavIdle /\ RetryIdle /\ EpisodesIdle
    /\ race_now = 0
    /\ newest_file \in {0, 1}
    /\ cache_entry = NoEntry
    /\ calls = [c \in Calls |-> NoCall]
    /\ refresher = "running"

RaceNext ==
    \/ RaceTick
    \/ \E c \in Calls : LoadBegin(c)
    \/ \E c \in Calls : LoadStore(c)
    \/ ScraperWrites
    \/ CacheClear

RaceSpec == RaceInit /\ [][RaceNext]_vars

(* ================================================================ claims *)
Done == pc = "done"
Succeeded == Done /\ result.status = "returned"
Position(q, x) == CHOOSE i \in 1..Len(q) : q[i] = x

SpecPriority ==
    <<"layer1_ssr_parser", "layer2_network_capture", "layer3_smart_dom", "layer4_native_fetch",
      "layer5_wp_ajax", "layer5_5_ai_llm", "layer6_decrypted", "layer6_fallback_unlocker">>

\* the order in which main.main gives precedence to accepted candidates
CodePriority ==
    <<"layer1_ssr_parser", "layer3_smart_dom", "layer2_network_capture", "layer4_native_fetch",
      "layer5_wp_ajax", "layer5_5_ai_llm", "layer6_decrypted", "layer6_fallback_unlocker">>

C3_NeverRaises == pipeline = "main" => result.status # "raised"

(* ------------------------------------------------------------------- C4 *)
\* the capture holds something one of the capture-driven strategies accepts
CaptureCandidate ==
    /\ capture_result.present
    /\ \/ find_json(capture_result, TARGET_KEYWORDS).tag = "data"
       \/ StrongDom(smart_dom_extract(capture_result.html_content))
       \/ is_encrypted(capture_result) /\ try_decrypt(capture_result) # {}

StateOf(p) ==
    CASE p = "L1" -> "TryingDirect"
      [] p \in {"L2_capture", "L2_find_json", "L3", "L2_eval"} -> "TryingBrowserCapture"
      [] p = "L2_captcha" -> "CheckingCaptcha"
      [] p = "L4" -> "TryingNativeFetch"
      [] p = "L5" -> "TryingWpAjax"
      [] p = "L5_5" -> "TryingLlm"
      [] p = "L6_decrypt" -> "CheckingEncryption"
      [] p = "L6_unlocker" -> "TryingExternalUnlocker"
      [] OTHER -> "Exhausted"

SpecStates ==
    <<"TryingDirect", "TryingBrowserCapture", "CheckingCaptcha", "CheckingEncryption",
      "TryingInteractionLayer", "TryingJsExtractedEndpoints", "TryingExternalUnlocker", "Exhausted">>

CodeSuccessors(p) ==
    CASE p = "L1" -> {"L2_capture"}
      [] p = "L2_capture" -> {"L2_captcha", "L3"}
      [] p = "L2_captcha" -> {"L2_find_json"}
      [] p = "L2_find_json" -> {"L3"}
      [] p = "L3" -> {"L2_eval", "done"}
      [] p = "L2_eval" -> {"L4", "done"}
      [] p = "L4" -> {"L5", "done"}
      [] p = "L5" -> {"L5_5", "done"}
      [] p = "L5_5" -> {"L6_decrypt", "done"}
      [] p = "L6_decrypt" -> {"L6_unlocker", "done"}
      [] p = "L6_unlocker" -> {"done"}
      [] OTHER -> {}

C6_KeywordGate ==
    pipeline = "main" /\ data.bound =>
        LET found == data.val.found
            rs == capture_result.responses
            page == capture_result.html_content
            Hit(r) == KeywordIn(r.body, TARGET_KEYWORDS) \/ KeywordIn(r.url, TARGET_KEYWORDS)
        IN  /\ \A k \in 1..Len(rs) :
                  is_json_valid(rs[k].form) /\ Hit(rs[k]) => rs[k].url \in found.urls
            /\ \A u \in found.urls :
                  \E k \in 1..Len(rs) : rs[k].url = u /\ is_json_valid(rs[k].form) /\ Hit(rs[k])
            /\ \A k \in 1..Len(page.inline) :
                  page.inline[k].parses =>
                      (KeywordIn(page.inline[k].text, TARGET_KEYWORDS)
                          <=> \E n \in 1..Len(found.inline_html_data) :
                                 found.inline_html_data[n] = page.inline[k])

(* ------------------------------------------------------------------- C7 *)
\* C7: the CAPTCHA check always hands over to the analysis of the same capture:
\* it ends no run, raises nothing, changes neither the capture nor the result,
\* and calls the external solver exactly when a marker is detected; a run in
\* which a CAPTCHA was detected and a candidate was accepted still succeeds.
C7_CaptchaNeverHalts ==
    /\ [][pipeline = "main" /\ pc = "L2_captcha" =>
            /\ pc' = "L2_find_json"
            /\ capture_result' = capture_result
            /\ result' = result /\ result.status = "running"
            /\ solver_calls' = solver_calls
                  + (IF detect_captcha(capture_result.html_content) # "" THEN 1 ELSE 0)]_vars
    /\ [](Done /\ solver_calls > 0 /\ (accepted # {} \/ CaptureCandidate) => Succeeded)

\* a run that detected a CAPTCHA and still ended in success
C7_Witness ==
    /\ pipeline = "main" /\ Succeeded /\ solver_calls = 1
    /\ detect_captcha(capture_result.html_content) = "g-recaptcha"

(* ------------------------------------------------------------------- C8 *)
\* C8: when the base URL is no JSON endpoint but a common API path answers
\* with JSON, the run stops at the direct-endpoint strategy with that data.
C8_DirectEndpointHit ==
    pipeline = "main" /\ Done /\ request(site) = "none" /\ try_common_endpoints(site) = "json" =>
        /\ result.status = "returned"
        /\ result.method = "direct-endpoint"
        /\ Len(invoked) = 1 /\ browser_sessions = 0

(* ------------------------------------------------------------------- C9 *)
\* C9: when the plain fetch returns HTML with a parseable SSR block, the run
\* accepts it at the SSR strategy and never launches a browser.
C9_SsrWithoutBrowser ==
    site.plain = "html" /\ site.ssr \in {"next", "nuxt"} =>
        /\ browser_sessions = 0
        /\ Done => accepted \cap {"layer1_ssr_parser", "ssr_parser"} # {}

(* ------------------------------------------------------------------ C10 *)
CompleteFiles == { k \in 1..Len(files) : files[k].complete }

Malformed(r) == r.content_type = CT_JSON /\ ~is_json_valid(r.form)

\* the capture without its malformed responses
WithoutMalformed(capture) ==
    [capture EXCEPT !.responses = SelectSeq(capture.responses, LAMBDA r : ~Malformed(r))]

\* C11: a response that declares application/json with a body that is not
\* valid JSON adds nothing to what find_json harvests - the analysis gives the
\* same result as for the capture without it, the other responses are still
\* harvested - and it makes neither find_json nor the run raise.
C11_MalformedJson ==
    pipeline = "main" /\ capture_result.present
      /\ (\E k \in 1..Len(capture_result.responses) : Malformed(capture_result.responses[k])) =>
        LET clean == WithoutMalformed(capture_result)
            inline == extract_inline_json(capture_result.html_content, TARGET_KEYWORDS)
        IN  /\ find_json(capture_result, TARGET_KEYWORDS) = find_json(clean, TARGET_KEYWORDS)
            /\ \A k \in 1..Len(capture_result.responses) :
                  Malformed(capture_result.responses[k])
                    /\ capture_result.responses[k].url
                          \in HarvestedUrls(capture_result, TARGET_KEYWORDS)
                  => capture_result.responses[k].url \in HarvestedUrls(clean, TARGET_KEYWORDS)
            /\ pc \notin {"L2_captcha", "L2_find_json"} /\ ~StockDataRaises(inline) =>
                  /\ data.bound
                  /\ data.val = find_json(clean, TARGET_KEYWORDS)
                  /\ result.status # "raised"

\* a run that met a truncated JSON body holding a keyword, went on, and
\* persisted the harvest of the other response
C11_Witness ==
    /\ pipeline = "main" /\ Succeeded /\ result.method = "layer2_network_capture"
    /\ \E k \in 1..Len(capture_result.responses) :
          /\ Malformed(capture_result.responses[k])
          /\ capture_result.responses[k].form = "text"
          /\ KeywordIn(capture_result.responses[k].body, TARGET_KEYWORDS)
    /\ data.val.found.urls = {URL_NONE}
    /\ Len(capture_result.responses) = 2

(* ------------------------------------------------------------------ C12 *)
\* C12: structure_gold_data and structure_stock_data return without raising
\* for every payload the extractors produce, and a payload they recognise
\* nothing in is still returned by find_json as it is.
C12_NormalizersTotal ==
    pipeline = "main" /\ capture_result.present =>
        LET inline == extract_inline_json(capture_result.html_content, TARGET_KEYWORDS)
            r == find_json(capture_result, TARGET_KEYWORDS)
        IN  /\ ~StockDataRaises(inline)
            /\ r.tag # "raise"
            /\ inline # <<>> => r.tag = "data" /\ r.found.inline_html_data = inline

(* ------------------------------------------------------------------ C13 *)
\* the LLM strategy is disabled or has no API key
LlmUnavailable == ~settings.USE_LLM_PARSER \/ settings.OPENROUTER_API_KEY = ""

\* C13: when the LLM API key is missing or the LLM strategy is disabled, no
\* request is ever sent to the LLM service, the LLM strategy yields no
\* candidate, and the LLM step hands over to the encryption check without
\* ending the run.
C13_MissingKeySkipsLlm ==
    /\ [](pipeline = "main" /\ LlmUnavailable =>
              llm_requests = 0 /\ "layer5_5_ai_llm" \notin accepted)
    /\ [][pipeline = "main" /\ pc = "L5_5" /\ LlmUnavailable =>
              /\ pc' = "L6_decrypt"
              /\ llm_requests' = llm_requests
              /\ result' = result /\ files' = files]_vars

\* a run with the LLM parser switched on but without a key: the page had
\* enough text for the LLM, no request was sent and the run went on to its end
C13_Witness ==
    /\ pipeline = "main" /\ Done
    /\ settings.USE_LLM_PARSER /\ settings.OPENROUTER_API_KEY = ""
    /\ capture_result.present /\ capture_result.html_content.longText
    /\ invoked[Len(invoked)] = "layer6_fallback_unlocker"
    /\ llm_requests = 0

(* ------------------------------------------------------------------ C14 *)
\* the exit status of  python main.py <URL>  (main.py, lines 231-237): the
\* interpreter exits with 1 on an uncaught exception and with 0 otherwise
ExitStatus == IF result.status = "raised" THEN 1 ELSE 0

\* a save_data call of the run did not leave a complete file
WriteFailed == save_calls > Cardinality(CompleteFiles)

\* C14: a run of main.main whose result file could not be written exits
\* non-zero and is not reported as a successful run.
C14_PersistenceFaultIsHard ==
    pipeline = "main" /\ Done /\ WriteFailed =>
        /\ ExitStatus # 0
        /\ result.status # "returned"

(* ------------------------------------------------------------------ C15 *)
\* C15: every run that writes its result creates a new file, and no file
\* written by an earlier run is ever overwritten or changed.
C15_WriteOnce ==
    [][/\ \A f \in disk : f \in disk'
       /\ store_runs' # store_runs => Cardinality(disk') = Cardinality(disk) + 1]_vars

(* ------------------------------------------------------------------ C16 *)
EmptyCache == [p \in Patterns |-> NoEntry]

\* the step is the end of a scraper subprocess of some refresh job
ScraperEnds == \E r \in Requests : jobs[r] = "spawned" /\ jobs'[r] = "ended"

\* C16: the cache changes only by gaining the entry of the pattern that is
\* being read, or by losing all its entries at once at the end of a re-scrape
\* that succeeded; a re-scrape that succeeded clears the cache and one that
\* did not succeed leaves it as it is.
C16_CacheLifecycle ==
    [][/\ cache' # cache =>
             \/ \E p \in Patterns :
                   cache' = [cache EXCEPT ![p] =
                                [present |-> TRUE, data |-> data_files[p], ts |-> api_now]]
             \/ /\ cache' = EmptyCache
                /\ ScraperEnds /\ refresh_status'.last_result = "returncode 0"
       /\ ScraperEnds =>
             IF refresh_status'.last_result = "returncode 0"
             THEN cache' = EmptyCache
             ELSE cache' = cache]_vars

(* ------------------------------------------------------------------ C17 *)
\* the refresh jobs that were started and have not finished
ActiveJobs == { r \in Requests : jobs[r] \in {"started", "marked", "spawned", "ended"} }

\* C17: at most one refresh job is in progress at any time, and a request
\* handled while a job is in progress is answered 409 and starts nothing.
C17_SingleRefreshJob ==
    /\ [](Cardinality(ActiveJobs) <= 1)
    /\ [][\A r \in Requests :
             handlers[r].pc = "new" /\ handlers'[r].pc # "new" /\ ActiveJobs # {}
                 => handlers'[r] = [pc |-> "done", code |-> 409]]_vars

(* ------------------------------------------------------------------ C18 *)
\* C18: after Ctrl-C no work item that had not started is started, the
\* running items are left to end, and the output file is then written, after
\* every worker has stopped, with every result gathered so far.
C18_Cancellation ==
    /\ late_starts = {}
    /\ interrupted /\ main_pc \in {"done", "aborted"} /\ results # <<>> =>
          main_pc = "done" /\ output = [written |-> TRUE, data |-> results]
    /\ output.written => Busy = {} /\ output.data = results

(* ------------------------------------------------------------------ C19 *)
\* the items a worker has taken off the queue
Dispatched == { i \in Items : item[i].st \notin {"new", "queued", "cancelled"} }

Finished == { i \in Items : item[i].st = "finished" }

\* C19: in the detail pool of each pooled scrape an entry is appended to the
\* results list and the completion counter is incremented only by the worker
\* that holds the pool's lock; the counter never decreases and counts each
\* dispatched item once, when the item ends (success, skip or error); the
\* results list holds the item of every success once and nothing else.  When
\* no worker is busy the counter equals the number of dispatched items.
C19_PoolBookkeeping ==
    /\ [][stage' = stage =>
            /\ results' # results =>
                  /\ lock # 0 /\ lock' = lock
                  /\ results' = Append(results, lock)
            /\ completed' # completed =>
                  /\ lock # 0 /\ item[lock].st # "finished" /\ item'[lock].st = "finished"
                  /\ completed' = completed + 1
            /\ completed' >= completed]_vars
    /\ [](/\ Cardinality(Busy \ {i \in Items : item[i].st = "fetching"}) <= 1
          /\ completed = Cardinality(Finished)
          /\ Busy = {} => completed = Cardinality(Dispatched)
          /\ stage = "details" =>
                /\ Len(results) = Cardinality({ results[k] : k \in 1..Len(results) })
                /\ { results[k] : k \in 1..Len(results) }
                      = { i \in Items : item[i].st \in {"appended", "finished"}
                                          /\ item[i].out = "detail" })

\* a detail pool that worked through all its items without an interrupt, with
\* a success, and a skip or an error, among them, and whose output was written
C19_Witness ==
    /\ main_pc = "done" /\ stage = "details" /\ ~interrupted
    /\ completed = MaxItems
    /\ Len(results) \in 1..(MaxItems - 1)
    /\ results[1] = 2
    /\ output.data = results

(* ------------------------------------------------------------------ C20 *)
\* C20: smart_dom_extract returns at most 100 article entries, however many
\* card-like elements the page holds: the entries come from the first 100
\* such elements only.
C20_DomCap ==
    dom_out.returned =>
        /\ dom_out.value.articles <= DomCap
        /\ dom_out.value.articles
              = Cardinality({ i \in 1..Len(dom_page.cards) : i <= DomCap /\ dom_page.cards[i] })

\* a page with more than 100 titled cards, for which exactly 100 entries were returned
C20_Witness ==
    /\ dom_out.returned
    /\ CountTrue(dom_page.cards) > DomCap
    /\ dom_out.value.articles = DomCap

(* ------------------------------------------------------------------ C22 *)
\* the DOM finding of the captured page, as Layer 3 computes it
DomFinding == smart_dom_extract(capture_result.html_content)

\* Layer 3 had a page to parse
DomParsed == capture_result.present /\ ~capture_result.html_content.empty

NothingDecodes ==
    /\ pipeline = "main" /\ pc = "L6_decrypt"
    /\ capture_result.present /\ is_encrypted(capture_result)
    /\ try_decrypt(capture_result) = {}

\* C24: when the encryption detector fires and no captured body base64-decodes
\* to JSON, the decryption step neither raises nor ends the run: nothing is
\* accepted or written and the run goes on to the external-unlocker step.
C24_SilentDecryptFailure ==
    [][NothingDecodes =>
          /\ pc' = "L6_unlocker"
          /\ result' = Running
          /\ UNCHANGED <<files, accepted, save_calls>>]_vars

\* the unlocker step reached after a decryption pass in which nothing decoded
C24_Witness ==
    /\ pipeline = "main" /\ pc = "L6_unlocker"
    /\ capture_result.present /\ is_encrypted(capture_result)
    /\ try_decrypt(capture_result) = {}
    /\ invoked # <<>> /\ invoked[Len(invoked)] = "layer6_decrypted"

(* ------------------------------------------------------------------ C21 *)
\* the order of the claim: the base URL, then each suffix of the list, bare and then with ?page=1
ProbeOrder ==
    [n \in 1..(2 * Len(COMMON_API_ENDPOINTS) + 1) |->
        IF n = 1 THEN BaseUrl ELSE Url(COMMON_API_ENDPOINTS[n \div 2], n % 2 = 1)]

\* the requests made so far follow the order of the claim
InProbeOrder ==
    /\ Len(requested) <= Len(ProbeOrder)
    /\ \A n \in 1..Len(requested) : requested[n] = ProbeOrder[n]

\* the probing stops at the first URL whose answer is in  stop : that answer is
\* returned and nothing is requested after it; None is returned only after
\* every URL was requested and none of the answers was in  stop
StopsAtFirst(stop) ==
    /\ \A n \in 1..(Len(requested) - 1) : server[requested[n]] \notin stop
    /\ probe.pc = "returned" =>
          LET last == requested[Len(requested)]
          IN  IF server[last] \in stop
              THEN probe.value = [url |-> last, answer |-> server[last]]
              ELSE probe.value = None /\ Len(requested) = Len(ProbeOrder)
    /\ (requested # <<>> /\ server[requested[Len(requested)]] \in stop) => probe.pc = "returned"

\* C21 (as stated): try_common_endpoints requests the base URL, then each
\* suffix in list order, bare then with ?page=1; it stops at the first response
\* that parses as JSON, an empty array or object included, returns that value
\* and requests nothing more; it returns no-result only after all requests failed.
C21_ProbingAsStated == InProbeOrder /\ StopsAtFirst({"json", "empty_json"})

\* C21 (amended): the same order; the probing stops at the first response that
\* parses to a non-empty JSON value, and a response that parses to an empty
\* array or object is passed over like a failed one.
C21_Probing ==
    /\ InProbeOrder /\ StopsAtFirst({"json"})
    /\ \A n \in 1..Len(requested) :
          server[requested[n]] = "empty_json" => probe.value # [url |-> requested[n], answer |-> "empty_json"]

\* a call that passed over an empty JSON answer and returned a later non-empty one
C21_Witness ==
    /\ probe.pc = "returned" /\ probe.value # None
    /\ \E n \in 1..(Len(requested) - 1) : server[requested[n]] = "empty_json"

(* ------------------------------------------------------------------ C23 *)
\* the answers the claim accepts: JSON, object or array, without an error field
AcceptedAsStated == {"object", "array"}

\* C23: a replayed endpoint's response is kept if and only if it parses as
\* JSON (object or array) and has no error field; the kept responses are keyed
\* by their endpoint; a run with at least one such response succeeds with the
\* native-fetch technique.
C23_NativeFetchAcceptance ==
    /\ \A i \in 1..Len(fetch_res) :
          api_endpoints[i] \in fetched_data <=> fetch_res[i] \in AcceptedAsStated
    /\ native.pc = "done" =>
          ((\E i \in 1..Len(fetch_res) : fetch_res[i] \in AcceptedAsStated)
              => native.layer4 = "layer4_native_fetch")

(* ------------------------------------------------------------------ C25 *)
\* C25: when the wait for network-idle times out, the browser-driven fetch
\* goes on with a DOM-content-loaded navigation; no navigation failure makes
\* it raise; what it returns holds every response and frame recorded so far
\* and, for a capture, the HTML of the page when the page has any.
C25_FetchDegrades ==
    /\ nav_result.status # "raised"
    /\ (nav.pc \in {"content", "close", "done"} /\ nav.outcomes[1] = "timeout")
          => (Len(nav.waits) = 2 /\ nav.waits[2] = "domcontentloaded")
    /\ nav_result.status = "returned" =>
          /\ nav_result.responses = recorded
          /\ (adapter = "capture" /\ loaded) => nav_result.html

(* ------------------------------------------------------------------ C26 *)
\* no attempt is made after a successful one
StopsAtSuccess == \A n \in 1..(Len(attempts) - 1) : ~attempts[n].ok

\* the work item ends with the page or with no-result, never with an exception
YieldsNoResult ==
    fetching.pc = "done" =>
        fetching.value = (IF attempts[Len(attempts)].ok THEN "page" ELSE "None")

\* C26 (as stated): the fetch of one URL is attempted at most 5 times in total
\* for one work item, stops at the first success, uses the timeout
\* base + 10 s * (attempt index), and yields no-result after the last failure.
C26_BoundedRetriesAsStated ==
    /\ Len(attempts) <= 5
    /\ StopsAtSuccess
    /\ \A n \in 1..Len(attempts) : attempts[n].timeout = fetcher.base + 10 * (n - 1)
    /\ YieldsNoResult

\* C26 (amended): one call of _get_html or scrape_detail makes at most
\* retries attempts (3 or 5) with the timeout base + 10 s * (attempt index
\* within the call); the drakorkita detail worker calls scrape_detail up to
\* three times, so its work item makes at most 15 attempts, the timeout
\* starting again at the base in each call.  The first success ends the
\* fetching, and after the last failure the work item yields no-result.
C26_BoundedRetries ==
    /\ Len(attempts) <= (IF fetcher.fn = "scrape_detail" THEN 15 ELSE fetcher.retries)
    /\ StopsAtSuccess
    /\ \A n \in 1..Len(attempts) :
          attempts[n].timeout = fetcher.base + 10 * ((n - 1) % fetcher.retries)
    /\ YieldsNoResult
    /\ (fetching.pc = "done" /\ fetching.value = "None") =>
          Len(attempts) = (IF fetcher.fn = "scrape_detail" THEN 15 ELSE fetcher.retries)

\* a drakorkita detail work item given up after 15 failed attempts
C26_Witness ==
    /\ fetcher.fn = "scrape_detail" /\ fetching.pc = "done" /\ fetching.value = "None"
    /\ Len(attempts) = 15 /\ attempts[6].timeout = 20

(* ------------------------------------------------------------------ C27 *)
\* the rounds started so far of one kind
RoundsOf(kind) == { n \in 1..Len(rounds) : rounds[n].kind = kind }

\* at most one AJAX round, one AJAX retry round and max_retries browser
\* rounds; a browser round comes only after both AJAX rounds; a round tries
\* only episodes whose embed was empty when it started
BoundedRounds ==
    /\ Cardinality(RoundsOf("ajax")) <= 1
    /\ Cardinality(RoundsOf("ajax_retry")) <= 1
    /\ Cardinality(RoundsOf("browser")) <= max_retries
    /\ \A n \in RoundsOf("browser") :
          n > 2 /\ rounds[1].kind = "ajax" /\ rounds[2].kind = "ajax_retry"
    /\ \A n \in 1..Len(rounds) : rounds[n].tried \subseteq rounds[n].empty

\* an embed, once filled, stays as it is
EmbedKept ==
    \A i \in 1..Len(ep_results) :
        ep_results[i].video_embed \notin {NoEmbed, NoSlot.video_embed}
            => ep_results'[i].video_embed = ep_results[i].video_embed

\* C27: _scrape_episodes_with_verification always terminates, after at most
\* one parallel AJAX round, one AJAX retry round and max_retries browser
\* rounds; browser rounds start only after both AJAX rounds; each round
\* retries only the episodes whose embed is still empty; a filled embed is
\* never cleared or overwritten.
C27_BoundedRounds ==
    /\ []BoundedRounds
    /\ [][EmbedKept]_vars
    /\ <>(ep.pc = "returned")

\* a call that used both AJAX rounds and all five browser rounds of the default and still returned
C27_Witness ==
    /\ ep.pc = "returned" /\ max_retries = DefaultMaxRetries
    /\ Len(rounds) = 2 + DefaultMaxRetries
    /\ \E i \in 1..Len(ep_results) : ep_results[i].video_embed = Embed("ajax_retry", 1)
    /\ \E i \in 1..Len(ep_results) : ep_results[i].video_embed = NoEmbed

(* ------------------------------------------------------------------ C29 *)
\* C29: the list returned has exactly one entry per input episode, and entry
\* i carries the label and the URL of input episode i, in whatever order the
\* workers completed and also when a worker raised.
C29_InputOrder ==
    ep.pc \in {"round2", "round2_wait", "browser", "browser_round", "report", "returned"} =>
        /\ Len(ep_results) = Len(episodes)
        /\ \A i \in 1..Len(episodes) :
              /\ ep_results[i].label = episodes[i].label
              /\ ep_results[i].url = episodes[i].url

\* a returned list whose second worker finished first and whose first worker raised
C29_Witness ==
    /\ ep.pc = "returned" /\ Len(episodes) >= 2
    /\ ep.order[1] = 2 /\ 1 \in ep.raised

(* ------------------------------------------------------------------ C28 *)
\* C28: once the refresh job has written its new file and cleared the cache,
\* every call of load_json_cached that begins afterwards and returns data
\* returns the content of the newest file, however an earlier call that was
\* in flight during the clear is interleaved with the refresh thread.
C28_NoStaleEntry ==
    \A c \in Calls :
        (calls[c].pc = "done" /\ calls[c].after_clear /\ calls[c].ret # NoData)
            => calls[c].ret = newest_file

(* ------------------------------------------------------------------ C30 *)
\* C30: every started refresh job eventually ends, whether the scraper exits
\* normally, exits with an error, cannot be started or runs into its timeout;
\* the step that ends it sets is_running to false with last_result recorded;
\* so is_running never stays true forever.
C30_RefreshCompletes ==
    /\ \A r \in Requests : (jobs[r] \in {"started", "marked", "spawned", "ended"}) ~> (jobs[r] = "finished")
    /\ [][\A r \in Requests :
             (jobs[r] # "finished" /\ jobs'[r] = "finished")
                 => (~refresh_status'.is_running /\ refresh_status'.last_result # "None")]_vars
    /\ refresh_status.is_running ~> ~refresh_status.is_running

\* a job whose subprocess.run raised has finished, is_running is false again,
\* and a later refresh request has passed the is_running check
C30_Witness ==
    \E r1 \in Requests, r2 \in Requests :
        /\ jobs[r1] = "finished" /\ refresh_status.last_result = "error"
        /\ ~refresh_status.is_running
        /\ handlers[r2] = [pc |-> "start", code |-> 0]

====
